---- MODULE Spec2Model ----
(***************************************************************************)
(* A model of the Emjay JIT compiler: the lowering stage (frontend.rs),    *)
(* the IR optimizer (optimization.rs) and the JIT driver (jit.rs).         *)
(***************************************************************************)
EXTENDS Integers, Sequences, FiniteSets, TLC

(***************************************************************************)
(* Bounds of the model.                                                    *)
(***************************************************************************)
\* Width of the machine word of the model (the program's i64, scaled down).
WordBits == 3
\* Largest number of elements in the block of the function under study.
MaxStmts == 2
\* Largest number of functions of a program handed to the driver.
MaxFunctions == 2
\* Deepest chain of nested trampoline calls the execution model follows.
MaxCallDepth == 2
\* Width of one lane of a move-immediate (16 bits in the program); a register
\* of the machine that runs the encoded words has four lanes.
LaneBits == 2
\* Number of eight-parameter functions in the long program handed to the driver.
ManyFunctions == 7

(***************************************************************************)
(* Machine integers.                                                       *)
(***************************************************************************)
RECURSIVE Pow2(_)
Pow2(n) == IF n = 0 THEN 1 ELSE 2 * Pow2(n - 1)

MinInt == 0 - Pow2(WordBits - 1)
MaxInt == Pow2(WordBits - 1) - 1
Word == MinInt..MaxInt

InRange(v) == MinInt <= v /\ v <= MaxInt

\* i64::wrapping_*: reduce modulo 2^WordBits into the signed range.
Wrap(v) == ((v + Pow2(WordBits - 1)) % Pow2(WordBits)) - Pow2(WordBits - 1)

Abs(v) == IF v < 0 THEN 0 - v ELSE v

\* Integer division truncating toward zero (b # 0).
TruncDiv(a, b) ==
    LET q == Abs(a) \div Abs(b)
    IN IF (a < 0) = (b < 0) THEN q ELSE 0 - q

SetMax(S) == CHOOSE m \in S : \A o \in S : o <= m

None == <<>>
Some(v) == <<v>>

(***************************************************************************)
(* ir.rs: the instructions.                                                *)
(***************************************************************************)
Mvi(dest, val) == [op |-> "Mvi", dest |-> dest, val |-> val]
MvArg(dest, arg) == [op |-> "MvArg", dest |-> dest, arg |-> arg]
BinOp(operator, dest, op1, op2) ==
    [op |-> "BinOp", operator |-> operator, dest |-> dest, op1 |-> op1, op2 |-> op2]
Neg(dest, o) == [op |-> "Neg", dest |-> dest, op1 |-> o]
Ret(reg) == [op |-> "Ret", reg |-> reg]
Call(dest, name, function_id, args) ==
    [op |-> "Call", dest |-> dest, name |-> name, function_id |-> function_id,
     args |-> args]

BinOpOperator == {"Add", "Sub", "Mul", "Div"}

\* IrInstruction::operands: the destination first, then the registers read.
operands(ins) ==
    CASE ins.op = "Mvi" -> <<ins.dest>>
      [] ins.op = "MvArg" -> <<ins.dest>>
      [] ins.op = "Neg" -> <<ins.dest, ins.op1>>
      [] ins.op = "BinOp" -> <<ins.dest, ins.op1, ins.op2>>
      [] ins.op = "Ret" -> <<ins.reg>>
      [] ins.op = "Call" -> <<ins.dest>> \o ins.args

CompiledFunction(name, id, num_args, body, num_used_registers) ==
    [name |-> name, id |-> id, num_args |-> num_args, body |-> body,
     num_used_registers |-> num_used_registers]

(***************************************************************************)
(* ast.rs: the syntax tree.                                                *)
(***************************************************************************)
Number(n) == [tag |-> "Number", n |-> n]
Identifier(name) == [tag |-> "Identifier", name |-> name]
Negate(e) == [tag |-> "Negate", expr |-> e]
Binary(tag, left, right) == [tag |-> tag, left |-> left, right |-> right]
FunctionCall(name, args) == [tag |-> "FunctionCall", name |-> name, args |-> args]

LetStatement(name, expression) ==
    [tag |-> "LetStatement", name |-> name, expression |-> expression]
AssignmentStatement(name, expression) ==
    [tag |-> "AssignmentStatement", name |-> name, expression |-> expression]
ReturnStatement(expression) == [tag |-> "ReturnStatement", expression |-> expression]
NestedBlock(block) == [tag |-> "NestedBlock", block |-> block]

Function(name, args, block) == [name |-> name, args |-> args, block |-> block]

(***************************************************************************)
(* frontend.rs: symbols and the chain of symbol tables.  A chain is a      *)
(* sequence of maps; the last map is the table itself, the one before it   *)
(* its parent, the first one the global table.                             *)
(***************************************************************************)
NoSymbol == [kind |-> "None"]
FunctionSymbol(id, num_arguments) ==
    [kind |-> "Function", id |-> id, num_arguments |-> num_arguments]
VariableSymbol(allocated_register) ==
    [kind |-> "Variable", allocated_register |-> allocated_register]
ArgumentSymbol(index) == [kind |-> "Argument", index |-> index]

EmptyTable == [n \in {} |-> NoSymbol]

MapPut(m, k, v) == [n \in (DOMAIN m) \cup {k} |-> IF n = k THEN v ELSE m[n]]

NoError == [kind |-> "None", name |-> "", expected |-> 0, actual |-> 0]
FrontendError(kind, name, expected, actual) ==
    [kind |-> kind, name |-> name, expected |-> expected, actual |-> actual]

\* SymbolTable::lookup: the nearest table of the chain that knows the name.
lookup(scopes, name) ==
    LET hits == {i \in 1..Len(scopes) : name \in DOMAIN scopes[i]}
    IN IF hits = {} THEN NoSymbol ELSE scopes[SetMax(hits)][name]

\* SymbolTable::put: insert into the table itself (the last of the chain).
put(scopes, name, symbol) ==
    [scopes EXCEPT ![Len(scopes)] = MapPut(@, name, symbol)]

\* SymbolTable::update_location: rewrite the register of the nearest symbol
\* with that name; panics unless that symbol is a variable.
update_location(scopes, name, register) ==
    LET hits == {i \in 1..Len(scopes) : name \in DOMAIN scopes[i]}
    IN IF hits = {} THEN [panic |-> TRUE, scopes |-> scopes]
       ELSE LET i == SetMax(hits)
            IN IF scopes[i][name].kind = "Variable"
               THEN [panic |-> FALSE,
                     scopes |-> [scopes EXCEPT ![i][name] = VariableSymbol(register)]]
               ELSE [panic |-> TRUE, scopes |-> scopes]

\* The state of a FunctionCompiler while it lowers one function: the body
\* emitted so far, next_free_reg, the chain of symbol tables of the block
\* being compiled, the error (if any) and the register of the last expression.
Failed(fc, kind, name, expected, actual) ==
    [fc EXCEPT !.err = FrontendError(kind, name, expected, actual)]

Emit(fc, ins) == [fc EXCEPT !.body = Append(@, ins)]

\* An allocation that leaves one register index unused each time.
allocate_reg_skipping(fc) == [fc EXCEPT !.next_free_reg = @ + 2, !.reg = fc.next_free_reg]

\* FunctionCompiler::allocate_reg / IrRegister::inc.
allocate_reg(fc) == [fc EXCEPT !.next_free_reg = @ + 1, !.reg = fc.next_free_reg]

\* The symbol of a name becomes as a variable held in the register just produced.
bind(fc, name) == [fc EXCEPT !.scopes = put(@, name, VariableSymbol(fc.reg))]

\* An argument is copied into the fresh register a.reg, and from then on the
\* name is a variable of the current table.
mv_arg(a, name, index) == bind(Emit(a, MvArg(a.reg, index)), name)

emit_mvi(a, n) == Emit(a, Mvi(a.reg, n))
emit_neg(a, operand) == Emit(a, Neg(a.reg, operand))
emit_binop(a, operator, op1, op2) == Emit(a, BinOp(operator, a.reg, op1, op2))
emit_call(after, dest, name, function_id, args) ==
    [Emit(after, Call(dest, name, function_id, args)) EXCEPT !.reg = dest]

RECURSIVE compile_expression(_, _)
RECURSIVE compile_call_args(_, _, _)

call_args_after(one, rest, regs) ==
    IF one.err # NoError THEN [fc |-> one, regs |-> regs]
    ELSE compile_call_args(one, rest, Append(regs, one.reg))

\* The argument expressions of a call, left to right, stopping at the first
\* error; regs collects their registers.
compile_call_args(fc, args, regs) ==
    IF args = <<>> THEN [fc |-> fc, regs |-> regs]
    ELSE call_args_after(compile_expression(fc, Head(args)), Tail(args), regs)

\* Expression::Identifier.
compile_identifier(fc, name, symbol) ==
    CASE symbol.kind = "Variable" -> [fc EXCEPT !.reg = symbol.allocated_register]
      [] symbol.kind = "Argument" -> mv_arg(allocate_reg(fc), name, symbol.index)
      [] OTHER -> Failed(fc, "VariableNotDefined", name, 0, 0)

\* Expression::FunctionCall: the destination register is taken first, then
\* the arguments are compiled, then the Call is emitted.
call_after_args(after, dest, name, function_id) ==
    IF after.fc.err # NoError THEN after.fc
    ELSE emit_call(after.fc, dest, name, function_id, after.regs)

call_with_dest(d, expression, symbol) ==
    call_after_args(compile_call_args(d, expression.args, <<>>), d.reg,
                    expression.name, symbol.id)

\* A call lowered without comparing the number of arguments.
compile_call_unchecked_arity(fc, expression, symbol) ==
    IF symbol.kind # "Function"
    THEN Failed(fc, "UnknownFunctionCalled", expression.name, 0, 0)
    ELSE call_with_dest(allocate_reg(fc), expression, symbol)

compile_call(fc, expression, symbol) ==
    IF symbol.kind # "Function"
    THEN Failed(fc, "UnknownFunctionCalled", expression.name, 0, 0)
    ELSE IF Len(expression.args) # symbol.num_arguments
    THEN Failed(fc, "InvalidArgumentsToFunctionCall", expression.name,
                symbol.num_arguments, Len(expression.args))
    ELSE call_with_dest(allocate_reg(fc), expression, symbol)

\* Expression::Negate.
negate_after(o) ==
    IF o.err # NoError THEN o ELSE emit_neg(allocate_reg(o), o.reg)

\* Expression::Add, Sub, Mul, Div.
binop_after_right(operator, op1, r) ==
    IF r.err # NoError THEN r ELSE emit_binop(allocate_reg(r), operator, op1, r.reg)

binop_after_left(operator, l, right) ==
    IF l.err # NoError THEN l
    ELSE binop_after_right(operator, l.reg, compile_expression(l, right))

\* FunctionCompiler::compile_expression.
compile_expression(fc, expression) ==
    CASE expression.tag = "Identifier" ->
            compile_identifier(fc, expression.name, lookup(fc.scopes, expression.name))
      [] expression.tag = "Number" -> emit_mvi(allocate_reg(fc), expression.n)
      [] expression.tag = "FunctionCall" ->
            compile_call(fc, expression, lookup(fc.scopes, expression.name))
      [] expression.tag = "Negate" ->
            negate_after(compile_expression(fc, expression.expr))
      [] expression.tag \in BinOpOperator ->
            binop_after_left(expression.tag,
                             compile_expression(fc, expression.left), expression.right)

\* BlockElement::LetStatement.
let_after(e, name) == IF e.err # NoError THEN e ELSE bind(e, name)

\* A let that only refuses names that are variables already.
compile_let_over_argument(fc, element, symbol) ==
    CASE symbol.kind = "Variable" ->
            Failed(fc, "VariableAlreadyDefined", element.name, 0, 0)
      [] OTHER -> let_after(compile_expression(fc, element.expression), element.name)

compile_let(fc, element, symbol) ==
    CASE symbol.kind = "Variable" ->
            Failed(fc, "VariableAlreadyDefined", element.name, 0, 0)
      [] symbol.kind = "Argument" ->
            Failed(fc, "VariableCannotShadowArgument", element.name, 0, 0)
      [] OTHER -> let_after(compile_expression(fc, element.expression), element.name)

\* BlockElement::AssignmentStatement.
assign_update(e, name, updated) ==
    IF updated.panic THEN Failed(e, "panic", name, 0, 0)
    ELSE [e EXCEPT !.scopes = updated.scopes]

assign_after(e, name) ==
    IF e.err # NoError THEN e
    ELSE assign_update(e, name, update_location(e.scopes, name, e.reg))

compile_assign(fc, element, existing_symbol) ==
    CASE existing_symbol.kind = "Variable" ->
            assign_after(compile_expression(fc, element.expression), element.name)
      [] existing_symbol.kind = "Argument" ->
            assign_after(
                compile_expression(
                    mv_arg(allocate_reg(fc), element.name, existing_symbol.index),
                    element.expression),
                element.name)
      [] OTHER -> Failed(fc, "VariableNotDefined", element.name, 0, 0)

\* BlockElement::ReturnStatement.
return_after(e) == IF e.err # NoError THEN e ELSE Emit(e, Ret(e.reg))

RECURSIVE compile_block(_, _)
RECURSIVE compile_elements(_, _)

\* A let that only looks for its name in the table of its own block.
compile_element_local_let(fc, element) ==
    CASE element.tag = "NestedBlock" -> compile_block(fc, element.block)
      [] element.tag = "LetStatement" ->
            compile_let(fc, element, lookup(<<fc.scopes[Len(fc.scopes)]>>, element.name))
      [] element.tag = "AssignmentStatement" ->
            compile_assign(fc, element, lookup(fc.scopes, element.name))
      [] element.tag = "ReturnStatement" ->
            return_after(compile_expression(fc, element.expression))

\* One element of a block (one iteration of the loop of compile_block).
compile_element(fc, element) ==
    CASE element.tag = "NestedBlock" -> compile_block(fc, element.block)
      [] element.tag = "LetStatement" ->
            compile_let(fc, element, lookup(fc.scopes, element.name))
      [] element.tag = "AssignmentStatement" ->
            compile_assign(fc, element, lookup(fc.scopes, element.name))
      [] element.tag = "ReturnStatement" ->
            return_after(compile_expression(fc, element.expression))

elements_after(one, rest) ==
    IF one.err # NoError THEN one ELSE compile_elements(one, rest)

compile_elements(fc, block) ==
    IF block = <<>> THEN fc
    ELSE elements_after(compile_element(fc, Head(block)), Tail(block))

\* A block whose table outlives it.
block_keeps_table(inner) == inner

\* The table of a block is dropped when the block ends.
block_after(inner) ==
    IF inner.err # NoError THEN inner
    ELSE [inner EXCEPT !.scopes = SubSeq(@, 1, Len(@) - 1)]

\* FunctionCompiler::compile_block: a fresh table whose parent is the
\* enclosing one.
compile_block(fc, block) ==
    block_after(compile_elements([fc EXCEPT !.scopes = Append(@, EmptyTable)], block))

\* FunctionCompiler::define_args: argument i (from 0) of the function.
RECURSIVE define_args(_, _, _)
define_args(args, index, table) ==
    IF index >= Len(args) THEN table
    ELSE define_args(args, index + 1,
                     MapPut(table, args[index + 1], ArgumentSymbol(index)))

\* Every function is given id 0.
function_without_id(done, function, id) ==
    [err |-> done.err,
     function |-> CompiledFunction(function.name, 0, Len(function.args),
                                   done.body, done.next_free_reg)]

function_after(done, function, id) ==
    [err |-> done.err,
     function |-> CompiledFunction(function.name, id, Len(function.args),
                                   done.body, done.next_free_reg)]

\* FunctionCompiler::compile_function with a fresh FunctionCompiler.
compile_function(function, id, global_symbol_table) ==
    function_after(
        compile_block([body |-> <<>>, next_free_reg |-> 0,
                       scopes |-> <<global_symbol_table,
                                    define_args(function.args, 0, EmptyTable)>>,
                       err |-> NoError, reg |-> 0],
                      function.block),
        function, id)

\* A first pass that stores the first function only.
store_first_function(program, index, table) ==
    IF program = <<>> THEN table
    ELSE MapPut(table, program[1].name, FunctionSymbol(0, Len(program[1].args)))

\* The first pass of compile: every function stored by name.
RECURSIVE store_functions(_, _, _)
store_functions(program, index, table) ==
    IF index >= Len(program) THEN table
    ELSE store_functions(program, index + 1,
            MapPut(table, program[index + 1].name,
                   FunctionSymbol(index, Len(program[index + 1].args))))

\* The second pass of compile: each function in order, up to the first error.
RECURSIVE compile_functions(_, _, _, _)
functions_after(one, program, index, table, done) ==
    IF one.err # NoError
    THEN [err |-> one.err, functions |-> done, failed |-> index]
    ELSE compile_functions(program, index + 1, table, Append(done, one.function))

compile_functions(program, index, table, done) ==
    IF index >= Len(program) THEN [err |-> NoError, functions |-> done, failed |-> 0]
    ELSE functions_after(compile_function(program[index + 1], index, table),
                         program, index, table, done)

\* frontend::compile.
compile(program) ==
    compile_functions(program, 0, store_functions(program, 0, EmptyTable), <<>>)

(***************************************************************************)
(* optimization.rs.  propagate_constants either returns a body or panics   *)
(* (the process aborts); panic |-> TRUE stands for the second outcome.     *)
(***************************************************************************)

\* A fold whose division rounds toward minus infinity.
fold_binop_floor_div(operator, value1, value2, overflow_checks) ==
    CASE operator = "Add" ->
            IF InRange(value1 + value2) THEN Some(value1 + value2)
            ELSE IF overflow_checks THEN None ELSE Some(Wrap(value1 + value2))
      [] operator = "Sub" ->
            IF InRange(value1 - value2) THEN Some(value1 - value2)
            ELSE IF overflow_checks THEN None ELSE Some(Wrap(value1 - value2))
      [] operator = "Mul" ->
            IF InRange(value1 * value2) THEN Some(value1 * value2)
            ELSE IF overflow_checks THEN None ELSE Some(Wrap(value1 * value2))
      [] operator = "Div" ->
            IF value2 = 0 THEN None
            ELSE IF value1 = MinInt /\ value2 = 0 - 1 THEN None
            ELSE IF value2 > 0 THEN Some(value1 \div value2)
            ELSE Some((0 - value1) \div (0 - value2))

\* The arithmetic of the folds of propagate_constants on i64.  With overflow
\* checks (a debug build) an overflowing +, -, * or unary - panics, without
\* them (a release build) it wraps; / panics on a zero divisor and on
\* MIN / -1 in every build.  None is a panic.
fold_binop(operator, value1, value2, overflow_checks) ==
    CASE operator = "Add" ->
            IF InRange(value1 + value2) THEN Some(value1 + value2)
            ELSE IF overflow_checks THEN None ELSE Some(Wrap(value1 + value2))
      [] operator = "Sub" ->
            IF InRange(value1 - value2) THEN Some(value1 - value2)
            ELSE IF overflow_checks THEN None ELSE Some(Wrap(value1 - value2))
      [] operator = "Mul" ->
            IF InRange(value1 * value2) THEN Some(value1 * value2)
            ELSE IF overflow_checks THEN None ELSE Some(Wrap(value1 * value2))
      [] operator = "Div" ->
            IF value2 = 0 THEN None
            ELSE IF value1 = MinInt /\ value2 = 0 - 1 THEN None
            ELSE Some(TruncDiv(value1, value2))

fold_neg(value, overflow_checks) ==
    IF InRange(0 - value) THEN Some(0 - value)
    ELSE IF overflow_checks THEN None ELSE Some(Wrap(0 - value))

RECURSIVE propagate_from(_, _, _, _, _)
propagate_from(body, i, known_constants, result, overflow_checks) ==
    IF i > Len(body) THEN [panic |-> FALSE, body |-> result]
    ELSE LET instruction == body[i]
         IN CASE instruction.op = "Mvi" ->
                    propagate_from(body, i + 1,
                        [known_constants EXCEPT ![instruction.dest] = Some(instruction.val)],
                        Append(result, instruction), overflow_checks)
              [] instruction.op = "BinOp" ->
                    IF known_constants[instruction.op1] # None
                       /\ known_constants[instruction.op2] # None
                    THEN LET computed_value ==
                                 fold_binop(instruction.operator,
                                            known_constants[instruction.op1][1],
                                            known_constants[instruction.op2][1],
                                            overflow_checks)
                         IN IF computed_value = None THEN [panic |-> TRUE, body |-> result]
                            ELSE propagate_from(body, i + 1,
                                    [known_constants EXCEPT ![instruction.dest] = computed_value],
                                    Append(result, Mvi(instruction.dest, computed_value[1])),
                                    overflow_checks)
                    ELSE propagate_from(body, i + 1, known_constants,
                                        Append(result, instruction), overflow_checks)
              [] instruction.op = "Neg" ->
                    IF known_constants[instruction.op1] # None
                    THEN LET computed_value ==
                                 fold_neg(known_constants[instruction.op1][1], overflow_checks)
                         IN IF computed_value = None THEN [panic |-> TRUE, body |-> result]
                            ELSE propagate_from(body, i + 1,
                                    [known_constants EXCEPT ![instruction.dest] = computed_value],
                                    Append(result, Mvi(instruction.dest, computed_value[1])),
                                    overflow_checks)
                    ELSE propagate_from(body, i + 1, known_constants,
                                        Append(result, instruction), overflow_checks)
              [] OTHER ->
                    propagate_from(body, i + 1, known_constants,
                                   Append(result, instruction), overflow_checks)

propagate_constants(body, num_used_registers, overflow_checks) ==
    propagate_from(body, 1, [r \in 0..(num_used_registers - 1) |-> None], <<>>,
                   overflow_checks)

\* register_replacement[r] for every operand register of an instruction.
replace_operands(instruction, register_replacement) ==
    CASE instruction.op = "BinOp" ->
            [instruction EXCEPT !.op1 = register_replacement[@],
                                !.op2 = register_replacement[@]]
      [] instruction.op = "Neg" -> [instruction EXCEPT !.op1 = register_replacement[@]]
      [] instruction.op = "Ret" -> [instruction EXCEPT !.reg = register_replacement[@]]
      [] instruction.op = "Call" ->
            [instruction EXCEPT !.args = [k \in DOMAIN @ |-> register_replacement[@[k]]]]
      [] OTHER -> instruction

RECURSIVE deduplicate_from(_, _, _, _, _)
deduplicate_from(body, i, register_replacement, constant_values, result) ==
    IF i > Len(body) THEN result
    ELSE LET instruction == body[i]
         IN IF instruction.op = "Mvi"
            THEN IF instruction.val \in DOMAIN constant_values
                 THEN deduplicate_from(body, i + 1,
                        [register_replacement EXCEPT
                            ![instruction.dest] = constant_values[instruction.val]],
                        constant_values, result)
                 ELSE deduplicate_from(body, i + 1, register_replacement,
                        MapPut(constant_values, instruction.val, instruction.dest),
                        Append(result, instruction))
            ELSE deduplicate_from(body, i + 1, register_replacement, constant_values,
                    Append(result, replace_operands(instruction, register_replacement)))

\* The repeated constants are dropped and their readers left as they are.
RECURSIVE deduplicate_without_replacing_from(_, _, _, _)
deduplicate_without_replacing_from(body, i, constant_values, result) ==
    IF i > Len(body) THEN result
    ELSE IF body[i].op = "Mvi" /\ body[i].val \in constant_values
    THEN deduplicate_without_replacing_from(body, i + 1, constant_values, result)
    ELSE deduplicate_without_replacing_from(
            body, i + 1,
            IF body[i].op = "Mvi" THEN constant_values \cup {body[i].val}
            ELSE constant_values,
            Append(result, body[i]))

deduplicate_without_replacing(body, num_used_registers) ==
    deduplicate_without_replacing_from(body, 1, {}, <<>>)

deduplicate_constants(body, num_used_registers) ==
    deduplicate_from(body, 1, [r \in 0..(num_used_registers - 1) |-> r],
                     [v \in {} |-> 0], <<>>)

\* The registers an instruction reads.
reads(instruction) ==
    CASE instruction.op = "BinOp" -> {instruction.op1, instruction.op2}
      [] instruction.op = "Neg" -> {instruction.op1}
      [] instruction.op = "Ret" -> {instruction.reg}
      [] instruction.op = "Call" -> {instruction.args[k] : k \in DOMAIN instruction.args}
      [] OTHER -> {}

\* The backward sweep; used_registers is the set of registers marked true and
\* result the kept instructions, already in program order.
RECURSIVE dead_store_from(_, _, _, _)
dead_store_from(body, i, used_registers, result) ==
    IF i = 0 THEN result
    ELSE LET instruction == body[i]
         IN IF instruction.op = "Ret"
            THEN dead_store_from(body, i - 1, used_registers \cup {instruction.reg},
                                 <<instruction>> \o result)
            ELSE IF instruction.dest \in used_registers
            THEN dead_store_from(body, i - 1, used_registers \cup reads(instruction),
                                 <<instruction>> \o result)
            ELSE dead_store_from(body, i - 1, used_registers, result)

\* A sweep that keeps an instruction when any instruction of the body reads
\* its destination, live or not.
dead_store_by_any_read(body, num_used_registers) ==
    SelectSeq(body,
              LAMBDA instruction :
                  \/ instruction.op = "Ret"
                  \/ \E k \in DOMAIN body : instruction.dest \in reads(body[k]))

\* A sweep that keeps, besides the Rets, only what a Ret reads itself.
dead_store_by_ret_only(body, num_used_registers) ==
    SelectSeq(body,
              LAMBDA instruction :
                  \/ instruction.op = "Ret"
                  \/ \E k \in DOMAIN body :
                        body[k].op = "Ret" /\ body[k].reg = instruction.dest)

dead_store_elimination(body, num_used_registers) ==
    dead_store_from(body, Len(body), {}, <<>>)

OptimizedBody(body, num_used_registers) ==
    [body |-> body, num_used_registers |-> num_used_registers]

RECURSIVE rename_from(_, _, _, _, _)
rename_from(body, i, register_replacement, next_expected_register, result) ==
    IF i > Len(body) THEN OptimizedBody(result, next_expected_register)
    ELSE LET instruction == body[i]
             replaced == replace_operands(instruction, register_replacement)
         IN IF instruction.op = "Ret"
            THEN rename_from(body, i + 1, register_replacement,
                             next_expected_register, Append(result, replaced))
            ELSE IF next_expected_register = instruction.dest
            THEN rename_from(body, i + 1, register_replacement,
                             next_expected_register + 1, Append(result, replaced))
            ELSE rename_from(body, i + 1,
                    [register_replacement EXCEPT
                        ![instruction.dest] = next_expected_register],
                    next_expected_register + 1,
                    Append(result, [replaced EXCEPT !.dest = next_expected_register]))

\* No renaming at all.
rename_nothing(body, num_used_registers) == OptimizedBody(body, num_used_registers)

rename_registers(body, num_used_registers) ==
    rename_from(body, 1, [r \in 0..(num_used_registers - 1) |-> r], 0, <<>>)

optimize_fun_body(body, num_used_registers, overflow_checks) ==
    LET propagated == propagate_constants(body, num_used_registers, overflow_checks)
        renamed == rename_registers(
                       dead_store_elimination(
                           deduplicate_constants(propagated.body, num_used_registers),
                           num_used_registers),
                       num_used_registers)
    IN IF propagated.panic
       THEN [panic |-> TRUE, body |-> <<>>, num_used_registers |-> 0]
       ELSE [panic |-> FALSE, body |-> renamed.body,
             num_used_registers |-> renamed.num_used_registers]

\* optimize_fun: the function with its body and register count replaced,
\* unless the optimizer panicked.
optimize_fun(fun, overflow_checks) ==
    LET optimized == optimize_fun_body(fun.body, fun.num_used_registers, overflow_checks)
    IN [panic |-> optimized.panic,
        function |-> CompiledFunction(fun.name, fun.id, fun.num_args, optimized.body,
                                      optimized.num_used_registers)]

(***************************************************************************)
(* The meaning of a body: what the emitted code computes (add, sub, mul,   *)
(* sdiv and neg on full-width registers), up to the first Ret.  A call     *)
(* returns a value that depends only on the callee and on the argument     *)
(* values; oracle selects one such dependence.                             *)
(***************************************************************************)
eval_binop(operator, value1, value2) ==
    CASE operator = "Add" -> Wrap(value1 + value2)
      [] operator = "Sub" -> Wrap(value1 - value2)
      [] operator = "Mul" -> Wrap(value1 * value2)
      [] operator = "Div" ->
            IF value2 = 0 THEN 0 ELSE Wrap(TruncDiv(value1, value2))

RECURSIVE SumSeq(_)
SumSeq(q) == IF q = <<>> THEN 0 ELSE Head(q) + SumSeq(Tail(q))

CallResult(oracle, function_id, arg_values) ==
    Wrap(oracle + function_id + SumSeq([k \in DOMAIN arg_values |-> k * arg_values[k]]))

\* The value of a register never written: outside Word, so it is no value
\* a function can compute.
Undefined == MinInt - 1
RegValue(regs, r) == IF r \in DOMAIN regs THEN regs[r] ELSE Undefined

RECURSIVE eval_from(_, _, _, _, _, _)
eval_from(body, i, regs, calls, argv, oracle) ==
    IF i > Len(body) THEN [returned |-> None, calls |-> calls]
    ELSE LET instruction == body[i]
         IN CASE instruction.op = "Ret" ->
                    [returned |-> Some(RegValue(regs, instruction.reg)), calls |-> calls]
              [] instruction.op = "Mvi" ->
                    eval_from(body, i + 1, MapPut(regs, instruction.dest, instruction.val),
                              calls, argv, oracle)
              [] instruction.op = "MvArg" ->
                    eval_from(body, i + 1,
                              MapPut(regs, instruction.dest, argv[instruction.arg + 1]),
                              calls, argv, oracle)
              [] instruction.op = "BinOp" ->
                    eval_from(body, i + 1,
                              MapPut(regs, instruction.dest,
                                     eval_binop(instruction.operator,
                                                RegValue(regs, instruction.op1),
                                                RegValue(regs, instruction.op2))),
                              calls, argv, oracle)
              [] instruction.op = "Neg" ->
                    eval_from(body, i + 1,
                              MapPut(regs, instruction.dest,
                                     Wrap(0 - RegValue(regs, instruction.op1))),
                              calls, argv, oracle)
              [] instruction.op = "Call" ->
                    LET arg_values == [k \in DOMAIN instruction.args |->
                                          RegValue(regs, instruction.args[k])]
                    IN eval_from(body, i + 1,
                                 MapPut(regs, instruction.dest,
                                        CallResult(oracle, instruction.function_id,
                                                   arg_values)),
                                 Append(calls, <<instruction.function_id, arg_values>>),
                                 argv, oracle)

Eval(body, argv, oracle) == eval_from(body, 1, [r \in {} |-> 0], <<>>, argv, oracle)

(***************************************************************************)
(* backend_register_allocator.rs.  Program counters and registers count    *)
(* from 0; vectors indexed by them are functions on 0..n-1.                *)
(***************************************************************************)
NOT_ALLOCATED == 0 - 1
FREE == 0 - 1

RECURSIVE used_at_from(_, _, _)
used_at_from(body, pc, ir_reg) ==
    IF pc >= Len(body) THEN <<>>
    ELSE LET here == SelectSeq(operands(body[pc + 1]), LAMBDA o : o = ir_reg)
         IN [k \in 1..Len(here) |-> pc] \o used_at_from(body, pc + 1, ir_reg)

compute_ir_reg_used_at(function) ==
    [ir_reg \in 0..(function.num_used_registers - 1) |->
        used_at_from(function.body, 0, ir_reg)]

\* One operand of one instruction: keep its slot, or take the slot on top of
\* the free stack, or open a new slot.
allocate_operand(a, ir_reg) ==
    IF a.ir_reg_allocation[ir_reg] # NOT_ALLOCATED THEN a
    ELSE IF a.free_logical_hw_registers = <<>>
    THEN [a EXCEPT !.ir_reg_allocation[ir_reg] = Len(a.logical_hw_regs_content),
                   !.logical_hw_regs_content = Append(@, ir_reg)]
    ELSE LET first_free_reg ==
                 a.free_logical_hw_registers[Len(a.free_logical_hw_registers)]
         IN [a EXCEPT !.ir_reg_allocation[ir_reg] = first_free_reg,
                      !.logical_hw_regs_content[first_free_reg + 1] = ir_reg,
                      !.free_logical_hw_registers = SubSeq(@, 1, Len(@) - 1)]

RECURSIVE allocate_operands(_, _)
allocate_operands(a, regs) ==
    IF regs = <<>> THEN a
    ELSE allocate_operands(allocate_operand(a, Head(regs)), Tail(regs))

\* A sweep that frees every occupied slot, used later or not.
RECURSIVE free_every_slot_from(_, _, _)
free_every_slot_from(a, hw_reg, pc) ==
    IF hw_reg >= Len(a.logical_hw_regs_content) THEN a
    ELSE IF a.logical_hw_regs_content[hw_reg + 1] = FREE
    THEN free_every_slot_from(a, hw_reg + 1, pc)
    ELSE free_every_slot_from(
            [a EXCEPT !.logical_hw_regs_content[hw_reg + 1] = FREE,
                      !.free_logical_hw_registers = Append(@, hw_reg)],
            hw_reg + 1, pc)

\* "Can we free something?": every slot in index order.
RECURSIVE free_from(_, _, _)
free_from(a, hw_reg, pc) ==
    IF hw_reg >= Len(a.logical_hw_regs_content) THEN a
    ELSE LET ir_reg == a.logical_hw_regs_content[hw_reg + 1]
         IN IF ir_reg = FREE THEN free_from(a, hw_reg + 1, pc)
            ELSE LET pcs == a.ir_reg_used_at[ir_reg]
                     popped == IF pcs # <<>> /\ pcs[1] = pc THEN Tail(pcs) ELSE pcs
                     b == [a EXCEPT !.ir_reg_used_at[ir_reg] = popped]
                 IN IF popped = <<>>
                    THEN free_from(
                            [b EXCEPT !.logical_hw_regs_content[hw_reg + 1] = FREE,
                                      !.free_logical_hw_registers = Append(@, hw_reg)],
                            hw_reg + 1, pc)
                    ELSE free_from(b, hw_reg + 1, pc)

\* The loop over the body.  With no register to allocate no instruction has
\* an operand and the loop leaves the allocation as it is.
RECURSIVE allocate_from(_, _, _)
allocate_from(body, pc, a) ==
    IF pc >= Len(body) \/ DOMAIN a.ir_reg_allocation = {} THEN a
    ELSE allocate_from(body, pc + 1,
                       free_from(allocate_operands(a, operands(body[pc + 1])), 0, pc))

allocate_ir_regs_to_logical_hw_regs(function, ir_reg_used_at) ==
    allocate_from(function.body, 0,
        [ir_reg_allocation |->
            [ir_reg \in 0..(function.num_used_registers - 1) |-> NOT_ALLOCATED],
         logical_hw_regs_content |-> <<>>,
         free_logical_hw_registers |-> <<>>,
         ir_reg_used_at |-> ir_reg_used_at]).ir_reg_allocation

RegisterLocation(register) == [kind |-> "Register", register |-> register, offset |-> 0]
StackLocation(offset) == [kind |-> "Stack", register |-> "", offset |-> offset]

\* map_to_hw_register; the assertion that every register got a slot is panic.
map_to_hw_register(ir_reg_allocation, hw_registers) ==
    [panic |-> \E ir_reg \in DOMAIN ir_reg_allocation :
                    ir_reg_allocation[ir_reg] = NOT_ALLOCATED,
     locations |->
        [ir_reg \in DOMAIN ir_reg_allocation |->
            IF ir_reg_allocation[ir_reg] = NOT_ALLOCATED THEN StackLocation(0)
            ELSE IF ir_reg_allocation[ir_reg] < Len(hw_registers)
            THEN RegisterLocation(hw_registers[ir_reg_allocation[ir_reg] + 1])
            ELSE StackLocation((ir_reg_allocation[ir_reg] - Len(hw_registers)) * 8)]]

allocate(function, hw_registers) ==
    map_to_hw_register(
        allocate_ir_regs_to_logical_hw_regs(function, compute_ir_reg_used_at(function)),
        hw_registers)

(***************************************************************************)
(* backend_aarch64.rs: Aarch64Generator.  An emission threads e: the       *)
(* generator's fields (gen), the instructions pushed so far, the indices   *)
(* (from 0) of the ldp placeholders and the error, if any.                 *)
(***************************************************************************)
HwRegisterPool == <<"X9", "X10", "X11", "X12", "X13", "X14", "X15">>
ArgumentRegisters == <<"X0", "X1", "X2", "X3", "X4", "X5", "X6", "X7">>

NoBackendError == [kind |-> "None", reason |-> ""]
NotImplemented(reason) == [kind |-> "NotImplemented", reason |-> reason]
BackendPanic == [kind |-> "panic", reason |-> "assertion failed"]

\* Aarch64Generator::default().
DefaultGenerator ==
    [locations |-> <<>>, stack_offset |-> 0, max_stack_offset |-> 0,
     used_registers |-> <<>>, used_args_registers |-> <<>>]

Nop == [i |-> "Nop"]
RetInstruction == [i |-> "Ret"]
MovSpToReg(destination) == [i |-> "MovSpToReg", destination |-> destination]
MovImmToReg(register, value) ==
    [i |-> "MovImmToReg", register |-> register, value |-> value, address |-> ""]
\* MovImmToReg of an address of the host process.
MovAddrToReg(register, address) ==
    [i |-> "MovImmToReg", register |-> register, value |-> 0, address |-> address]
MovRegToReg(source, destination) ==
    [i |-> "MovRegToReg", source |-> source, destination |-> destination]
ThreeRegOp(i, destination, reg1, reg2) ==
    [i |-> i, destination |-> destination, reg1 |-> reg1, reg2 |-> reg2]
NegInstruction(destination, source) ==
    [i |-> "Neg", destination |-> destination, source |-> source]
Blr(register) == [i |-> "Blr", register |-> register]
Str(source, base, offset) ==
    [i |-> "Str", source |-> source, base |-> base, offset |-> offset]
Ldr(destination, base, offset) ==
    [i |-> "Ldr", destination |-> destination, base |-> base, offset |-> offset]
Stp(reg1, reg2, base, offset, pre_indexing) ==
    [i |-> "Stp", reg1 |-> reg1, reg2 |-> reg2, base |-> base, offset |-> offset,
     pre_indexing |-> pre_indexing]
Ldp(reg1, reg2, base, offset) ==
    [i |-> "Ldp", reg1 |-> reg1, reg2 |-> reg2, base |-> base, offset |-> offset]

\* Aarch64Generator::get_argument_location: X0..X7, an error from 8 on.
get_argument_location(arg) ==
    IF arg < 8
    THEN [err |-> NoBackendError, location |-> RegisterLocation(ArgumentRegisters[arg + 1])]
    ELSE [err |-> NotImplemented("support for more than 8 arguments"),
          location |-> StackLocation(0)]

RECURSIVE push_new_registers(_, _, _)
push_new_registers(locations, ir_reg, used_registers) ==
    IF ir_reg \notin DOMAIN locations THEN used_registers
    ELSE push_new_registers(locations, ir_reg + 1,
            IF locations[ir_reg].kind = "Register"
               /\ \A k \in DOMAIN used_registers :
                      used_registers[k] # locations[ir_reg].register
            THEN Append(used_registers, locations[ir_reg].register)
            ELSE used_registers)

\* Aarch64Generator::allocate_registers.
allocate_registers(gen, function) ==
    LET allocations == allocate(function, HwRegisterPool)
    IN [panic |-> allocations.panic,
        gen |-> [gen EXCEPT !.locations = allocations.locations,
                            !.used_registers =
                                push_new_registers(allocations.locations, 0, @)]]

\* Aarch64Generator::compute_used_args_registers.
RECURSIVE compute_used_args_registers_from(_, _, _)
compute_used_args_registers_from(gen, arg, num_args) ==
    IF arg >= num_args THEN [err |-> NoBackendError, gen |-> gen]
    ELSE LET location == get_argument_location(arg)
         IN IF location.err # NoBackendError THEN [err |-> location.err, gen |-> gen]
            ELSE compute_used_args_registers_from(
                    [gen EXCEPT !.used_args_registers =
                                    Append(@, location.location.register)],
                    arg + 1, num_args)

compute_used_args_registers(gen, function) ==
    compute_used_args_registers_from(gen, 0, function.num_args)

Push(e, instruction) == [e EXCEPT !.instructions = Append(@, instruction)]
Fail(e, reason) == [e EXCEPT !.err = NotImplemented(reason)]

\* Aarch64Generator::push.
push(e, register) ==
    LET stack_offset == e.gen.stack_offset + 8
        max_stack_offset == IF e.gen.max_stack_offset > stack_offset
                            THEN e.gen.max_stack_offset ELSE stack_offset
    IN Push([e EXCEPT !.gen.stack_offset = stack_offset,
                      !.gen.max_stack_offset = max_stack_offset],
            Str(register, "X29", stack_offset))

\* Aarch64Generator::pop.
pop(e, register) ==
    [Push(e, Ldr(register, "X29", e.gen.stack_offset))
     EXCEPT !.gen.stack_offset = @ - 8]

RECURSIVE push_all(_, _)
push_all(e, registers) ==
    IF registers = <<>> THEN e ELSE push_all(push(e, Head(registers)), Tail(registers))

RECURSIVE pop_all(_, _)
pop_all(e, registers) ==
    IF registers = <<>> THEN e ELSE pop_all(pop(e, Head(registers)), Tail(registers))

Reverse(q) == [k \in 1..Len(q) |-> q[Len(q) + 1 - k]]
NotX0(register) == register # "X0"

\* Call argument call_arg goes to X(call_arg), as if X0 and X1 were free.
RECURSIVE fill_arguments_unshifted(_, _, _)
fill_arguments_unshifted(e, call_args, call_arg) ==
    IF call_arg >= Len(call_args) THEN e
    ELSE LET actual == e.gen.locations[call_args[call_arg + 1]]
             arg_location == get_argument_location(call_arg)
         IN IF actual.kind # "Register"
            THEN Fail(e, "passing arguments to function from stack")
            ELSE IF arg_location.err # NoBackendError
            THEN [e EXCEPT !.err = arg_location.err]
            ELSE fill_arguments_unshifted(
                    Push(e, MovRegToReg(actual.register, arg_location.location.register)),
                    call_args, call_arg + 1)

\* "Fill arguments": call argument call_arg (from 0) goes to X(call_arg + 2).
RECURSIVE fill_arguments(_, _, _)
fill_arguments(e, call_args, call_arg) ==
    IF call_arg >= Len(call_args) THEN e
    ELSE LET actual == e.gen.locations[call_args[call_arg + 1]]
             arg_location == get_argument_location(call_arg + 2)
         IN IF actual.kind # "Register"
            THEN Fail(e, "passing arguments to function from stack")
            ELSE IF arg_location.err # NoBackendError
            THEN [e EXCEPT !.err = arg_location.err]
            ELSE fill_arguments(
                    Push(e, MovRegToReg(actual.register, arg_location.location.register)),
                    call_args, call_arg + 1)

\* The arm of generate_machine_code for one IR instruction.
generate_instruction(e, instruction) ==
    LET locations == e.gen.locations
    IN CASE instruction.op = "Mvi" ->
                IF locations[instruction.dest].kind # "Register"
                THEN Fail(e, "move immediate to stack")
                ELSE Push(e, MovImmToReg(locations[instruction.dest].register,
                                         instruction.val))
         [] instruction.op = "MvArg" ->
                LET location == get_argument_location(instruction.arg)
                IN IF location.err # NoBackendError THEN [e EXCEPT !.err = location.err]
                   ELSE IF locations[instruction.dest].kind # "Register"
                   THEN Fail(e, "move argument to stack")
                   ELSE Push(e, MovRegToReg(location.location.register,
                                            locations[instruction.dest].register))
         [] instruction.op = "Ret" ->
                IF locations[instruction.reg].kind # "Register"
                THEN Fail(e, "return value from stack")
                ELSE LET moved == Push(e, MovRegToReg(locations[instruction.reg].register,
                                                      "X0"))
                         marked == [moved EXCEPT !.index_of_ldp_to_fix =
                                                    Append(@, Len(moved.instructions))]
                     IN Push(Push(marked, Nop), RetInstruction)
         [] instruction.op = "Neg" ->
                IF locations[instruction.op1].kind # "Register"
                THEN Fail(e, "negate stack value")
                ELSE IF locations[instruction.dest].kind # "Register"
                THEN Fail(e, "store negation to stack value")
                ELSE Push(e, NegInstruction(locations[instruction.dest].register,
                                            locations[instruction.op1].register))
         [] instruction.op = "BinOp" ->
                IF locations[instruction.op1].kind # "Register"
                   \/ locations[instruction.op2].kind # "Register"
                THEN Fail(e, "binop when one operand is in stack")
                ELSE IF locations[instruction.dest].kind # "Register"
                THEN Fail(e, "binop when destination is in stack")
                ELSE Push(e, ThreeRegOp(instruction.operator,
                                        locations[instruction.dest].register,
                                        locations[instruction.op1].register,
                                        locations[instruction.op2].register))
         [] instruction.op = "Call" ->
                LET used_registers == e.gen.used_registers
                    saved_args == SelectSeq(e.gen.used_args_registers, NotX0)
                    saved == push_all(push_all(push(push(e, "X0"), "X19"),
                                               used_registers),
                                      saved_args)
                    loaded == Push(Push(saved, MovAddrToReg("X0", "function_catalog")),
                                   MovImmToReg("X1", instruction.function_id))
                    filled == fill_arguments(loaded, instruction.args, 0)
                    called == Push(Push(filled,
                                        MovAddrToReg("X19", "jit_call_trampoline")),
                                   Blr("X19"))
                    restored == pop(pop_all(pop_all(called, saved_args),
                                            Reverse(used_registers)),
                                    "X19")
                IN IF filled.err # NoBackendError THEN filled
                   ELSE IF locations[instruction.dest].kind # "Register"
                   THEN Fail(restored, "move register to stack")
                   ELSE pop(Push(restored,
                                 MovRegToReg("X0", locations[instruction.dest].register)),
                            "X0")

RECURSIVE generate_body(_, _)
generate_body(e, body) ==
    IF body = <<>> THEN e
    ELSE LET one == generate_instruction(e, Head(body))
         IN IF one.err # NoBackendError THEN one ELSE generate_body(one, Tail(body))

\* The depth left as it is.
stack_depth_unaligned(max_stack_offset) == max_stack_offset

\* (max_stack_offset + 15) & 0xFFFFFFF0 on u32.
stack_depth_to_reserve(max_stack_offset) == ((max_stack_offset + 15) \div 16) * 16

\* Aarch64Generator::generate_machine_code: the generator afterwards, the
\* error, and the instructions whose encodings are the machine code.
generate_machine_code(gen, function) ==
    LET allocated == allocate_registers(gen, function)
        with_args == compute_used_args_registers(allocated.gen, function)
        framed == [with_args.gen EXCEPT !.stack_offset = @ + 16,
                                        !.max_stack_offset = with_args.gen.stack_offset + 16]
        emitted == generate_body(
                       [gen |-> framed,
                        instructions |-> <<Nop, MovSpToReg("X29")>>,
                        index_of_ldp_to_fix |-> <<>>,
                        err |-> NoBackendError],
                       function.body)
        depth == stack_depth_to_reserve(emitted.gen.max_stack_offset)
        ldps == {emitted.index_of_ldp_to_fix[k] + 1 :
                    k \in DOMAIN emitted.index_of_ldp_to_fix}
    IN IF allocated.panic
       THEN [gen |-> allocated.gen, err |-> BackendPanic, instructions |-> <<>>]
       ELSE IF with_args.err # NoBackendError
       THEN [gen |-> with_args.gen, err |-> with_args.err, instructions |-> <<>>]
       ELSE IF emitted.err # NoBackendError
       THEN [gen |-> emitted.gen, err |-> emitted.err, instructions |-> <<>>]
       ELSE [gen |-> emitted.gen, err |-> NoBackendError,
             instructions |->
                [k \in DOMAIN emitted.instructions |->
                    IF k = 1 THEN Stp("X29", "X30", "Sp", 0 - depth, TRUE)
                    ELSE IF k \in ldps THEN Ldp("X29", "X30", "Sp", depth)
                    ELSE emitted.instructions[k]]]

(***************************************************************************)
(* backend_aarch64.rs: Aarch64Instruction::make_machine_code.  An encoded  *)
(* word is kept as its fields: the opcode bits (base), the immediate field *)
(* (bits 5..20) and the register field (bits 0..4).  The immediate of a    *)
(* MovImmToReg is an i64 of four lanes of LaneBits bits each.              *)
(***************************************************************************)
ImmBits == 4 * LaneBits
ImmValues == (0 - Pow2(ImmBits - 1))..(Pow2(ImmBits - 1) - 1)

\* `value as u64` and back.
as_u64(value) == value % Pow2(ImmBits)
as_i64(imm) == IF imm >= Pow2(ImmBits - 1) THEN imm - Pow2(ImmBits) ELSE imm

MOVZ == "MOVZ"
MOVK_SHIFT_16 == "MOVK_SHIFT_16"
MOVK_SHIFT_32 == "MOVK_SHIFT_32"
MOVK_SHIFT_48 == "MOVK_SHIFT_48"
STP == "STP"
STP_PRE_INDEX == "STP_PRE_INDEX"
LDP == "LDP"

\* (offset >> 3) & 0x7F on i32: the 7-bit field of a pair instruction.
pair_offset(offset) == (offset \div 8) % 128

\* The word of an stp or of an ldp: base | reg1 | reg2 << 10 | base register
\* << 5 | field << 15.
pair_word(base, instruction) ==
    [base |-> base, rt |-> instruction.reg1, rt2 |-> instruction.reg2,
     rn |-> instruction.base, imm7 |-> pair_offset(instruction.offset)]

\* Aarch64Instruction::mov_imm: base | (immediate & 0xFFFF) << 5 | register.
mov_imm(base, immediate, register) ==
    [base |-> base, imm16 |-> immediate % Pow2(LaneBits), rd |-> register]

\* An encoding that compares the immediate as a signed number.
make_machine_code_signed(instruction) ==
    LET imm == instruction.value
    IN <<mov_imm(MOVZ, as_u64(imm), instruction.register)>>
       \o (IF imm > Pow2(LaneBits) - 1
           THEN <<mov_imm(MOVK_SHIFT_16, as_u64(imm) \div Pow2(LaneBits),
                          instruction.register)>>
           ELSE <<>>)
       \o (IF imm > Pow2(2 * LaneBits) - 1
           THEN <<mov_imm(MOVK_SHIFT_32, as_u64(imm) \div Pow2(2 * LaneBits),
                          instruction.register)>>
           ELSE <<>>)
       \o (IF imm > Pow2(3 * LaneBits) - 1
           THEN <<mov_imm(MOVK_SHIFT_48, as_u64(imm) \div Pow2(3 * LaneBits),
                          instruction.register)>>
           ELSE <<>>)

\* make_machine_code, the arms of Stp, Ldp and MovImmToReg: the words of the
\* instruction.
make_machine_code(instruction) ==
    IF instruction.i = "Stp"
    THEN <<pair_word(IF instruction.pre_indexing THEN STP_PRE_INDEX ELSE STP,
                     instruction)>>
    ELSE IF instruction.i = "Ldp" THEN <<pair_word(LDP, instruction)>>
    ELSE
    LET imm == as_u64(instruction.value)
    IN <<mov_imm(MOVZ, imm, instruction.register)>>
       \o (IF imm > Pow2(LaneBits) - 1
           THEN <<mov_imm(MOVK_SHIFT_16, imm \div Pow2(LaneBits),
                          instruction.register)>>
           ELSE <<>>)
       \o (IF imm > Pow2(2 * LaneBits) - 1
           THEN <<mov_imm(MOVK_SHIFT_32, imm \div Pow2(2 * LaneBits),
                          instruction.register)>>
           ELSE <<>>)
       \o (IF imm > Pow2(3 * LaneBits) - 1
           THEN <<mov_imm(MOVK_SHIFT_48, imm \div Pow2(3 * LaneBits),
                          instruction.register)>>
           ELSE <<>>)

\* What the processor does with a word: movz writes the immediate into lane 0
\* and zeroes the other lanes, movk writes it into its lane and keeps the
\* others.
lane_of(base) ==
    CASE base = MOVZ -> 0
      [] base = MOVK_SHIFT_16 -> 1
      [] base = MOVK_SHIFT_32 -> 2
      [] base = MOVK_SHIFT_48 -> 3

lane(imm, k) == (imm \div Pow2(k * LaneBits)) % Pow2(LaneBits)

execute_word(word, registers) ==
    IF word.base = MOVZ
    THEN [registers EXCEPT ![word.rd] = word.imm16]
    ELSE [registers EXCEPT ![word.rd] =
             @ + (word.imm16 - lane(@, lane_of(word.base)))
                    * Pow2(lane_of(word.base) * LaneBits)]

(***************************************************************************)
(* The inputs: source programs, as the syntax trees the parser hands over. *)
(***************************************************************************)
\* The expressions of the function under study, f(x), next to g(y).
Expressions ==
    { Number(1), Number(MaxInt), Identifier("a"), Identifier("x"),
      Negate(Identifier("x")), Negate(Number(MinInt)),
      Binary("Add", Identifier("a"), Number(1)),
      Binary("Add", Number(MaxInt), Number(1)),
      Binary("Sub", Number(1), Identifier("x")),
      Binary("Mul", Identifier("x"), Identifier("x")),
      Binary("Div", Number(MinInt + 1), Number(2)),
      Binary("Div", Number(1), Number(0)),
      Binary("Div", Identifier("x"), Number(0)),
      FunctionCall("g", <<Identifier("a")>>),
      FunctionCall("g", <<Number(1)>>),
      FunctionCall("g", <<>>),
      FunctionCall("h", <<>>),
      FunctionCall("a", <<Identifier("x")>>) }

Statements ==
    {LetStatement("a", e) : e \in Expressions}
    \cup {LetStatement("x", Number(1)), LetStatement("g", Number(1))}
    \cup {AssignmentStatement(n, e) :
            n \in {"a", "x"}, e \in {Number(1), Identifier("x"), Identifier("a")}}
    \cup {ReturnStatement(e) : e \in Expressions}

\* A block element: a statement, or a nested block holding one statement.
Elements == Statements \cup {NestedBlock(<<s>>) : s \in Statements}

Blocks == UNION {[1..n -> Elements] : n \in 0..MaxStmts}

IdentityOfY == Function("g", <<"y">>, <<ReturnStatement(Identifier("y"))>>)

StudyPrograms == {<<Function("f", <<"x">>, block), IdentityOfY>> : block \in Blocks}

\* Nine parameters: one more than the argument registers.
NineParameters == <<"p0", "p1", "p2", "p3", "p4", "p5", "p6", "p7", "p8">>

SixParameters == SubSeq(NineParameters, 1, 6)
SevenParameters == SubSeq(NineParameters, 1, 7)

\* q written n times over.
RECURSIVE Repeated(_, _)
Repeated(q, n) == IF n = 0 THEN <<>> ELSE q \o Repeated(q, n - 1)

\* t1 + (t2 + (... + tn)).
RECURSIVE SumOf(_)
SumOf(terms) ==
    IF Len(terms) = 1 THEN terms[1]
    ELSE Binary("Add", Head(terms), SumOf(Tail(terms)))

\* Two of the six parameters, passed in turn.
SixArguments == <<Identifier("p0"), Identifier("p1")>>

\* The functions of the programs that exercise the driver.
DriverFunctions ==
    { Function("main", <<>>, <<ReturnStatement(Number(1))>>),
      Function("main", <<>>, <<ReturnStatement(FunctionCall("g", <<Number(1)>>))>>),
      Function("main", <<"x">>,
               <<LetStatement("a", FunctionCall("f", <<>>)),
                 ReturnStatement(FunctionCall("g", <<Identifier("x")>>))>>),
      Function("g", <<"y">>, <<ReturnStatement(Identifier("y"))>>),
      Function("g", <<"y">>, <<ReturnStatement(FunctionCall("g", <<Identifier("y")>>))>>),
      Function("f", <<>>, <<ReturnStatement(FunctionCall("main", <<>>))>>),
      Function("f", <<>>, <<ReturnStatement(Identifier("a"))>>),
      Function("f", <<>>, <<ReturnStatement(Binary("Div", Number(1), Number(0)))>>),
      Function("f", NineParameters, <<ReturnStatement(Number(1))>>),
      Function("f", SixParameters,
               <<ReturnStatement(FunctionCall("f", Repeated(SixArguments, 3)))>>),
      Function("g", SevenParameters,
               <<ReturnStatement(FunctionCall("g", Repeated(<<Identifier("p0")>>, 7)))>>),
      Function("f", <<"x">>,
               <<ReturnStatement(
                    SumOf(<<Identifier("x"), Number(0), Number(1), Number(2),
                            Number(3), Number(0 - 1), Number(0 - 2),
                            FunctionCall("g", <<Identifier("x")>>)>>))>>) }

DriverPrograms == UNION {[1..n -> DriverFunctions] : n \in 0..MaxFunctions}

\* A long program: g(), then ManyFunctions functions of eight parameters
\* that call it.
LongProgram ==
    <<Function("g", <<>>, <<ReturnStatement(Number(1))>>)>>
    \o [k \in 1..ManyFunctions |->
           Function("f", SubSeq(NineParameters, 1, 8),
                    <<ReturnStatement(FunctionCall("g", <<>>))>>)]

Unparseable == [parses |-> FALSE, program |-> <<>>]
Parsed(program) == [parses |-> TRUE, program |-> program]

Inputs ==
    {[source |-> Parsed(p), main_function_name |-> "f"] : p \in StudyPrograms}
    \cup {[source |-> Parsed(p), main_function_name |-> m] :
            p \in DriverPrograms, m \in {"main", "f"}}
    \cup {[source |-> Parsed(LongProgram), main_function_name |-> "g"]}
    \cup {[source |-> Unparseable, main_function_name |-> "main"]}

(***************************************************************************)
(* backend.rs: CompiledFunctionCatalog, the table of entry pointers.  A    *)
(* catalog is the sequence of the pointers stored; the entry of function   *)
(* id is at position id + 1.                                               *)
(***************************************************************************)
new_catalog == <<>>

\* store(id, ptr) asserts id == current_len and appends.
store_function_pointer(catalog, id, ptr) ==
    IF id = Len(catalog)
    THEN [panic |-> FALSE, catalog |-> Append(catalog, ptr)]
    ELSE [panic |-> TRUE, catalog |-> catalog]

\* get(id) asserts id < len.
get_function_pointer(catalog, id) ==
    IF id < Len(catalog)
    THEN [panic |-> FALSE, fun |-> catalog[id + 1]]
    ELSE [panic |-> TRUE, fun |-> 0]

(***************************************************************************)
(* jit.rs: jit_compile_program step by step, then the execution of the     *)
(* returned entry pointer through jit_call_trampoline.                     *)
(***************************************************************************)
VARIABLES
    source,              \* the input of jit_compile_program
    main_function_name,  \* its second argument
    overflow_checks,     \* whether the build panics on arithmetic overflow
    pc,                  \* the position in jit_compile_program / the execution
    compiled_functions,  \* what frontend::compile returned
    index,               \* how many functions the loop has completed
    function,            \* the optimized function of the current iteration
    gen,                 \* the Aarch64Generator
    machine_code,        \* the instructions generated for the current function
    pages,               \* the executable pages mapped so far
    fun_ptr,             \* the pointer to_function_pointer returned
    function_catalog,    \* the CompiledFunctionCatalog: the pointers stored
    main_function,       \* Option<JitFn>
    result,              \* what jit_compile_program returned
    call_stack,          \* the frames of the running JIT code
    lookups,             \* what get_function_pointer was asked, and whether it found it
    encoded,             \* the instruction handed to make_machine_code
    machine_words,       \* the words make_machine_code returned
    executed,            \* how many of them the processor has executed
    cpu                  \* the registers of the processor that executes them

encoder_vars == <<encoded, machine_words, executed, cpu>>

vars == <<source, main_function_name, overflow_checks, pc, compiled_functions, index,
          function, gen, machine_code, pages, fun_ptr, function_catalog, main_function,
          result, call_stack, lookups, encoder_vars>>

\* The registers of the processor the encoder is observed with.
EncoderRegisters == {"X0", "X9", "X19"}

\* No instruction has been handed to make_machine_code.
EncoderIdle ==
    /\ encoded = Nop
    /\ machine_words = <<>>
    /\ executed = 0
    /\ cpu = [register \in EncoderRegisters |-> 0]

NoFunction == CompiledFunction("", 0, 0, <<>>, 0)
NoResult == [kind |-> "None", error |-> NoError, backend |-> NoBackendError, name |-> ""]
Returned(kind, error, backend, name) ==
    [kind |-> kind, error |-> error, backend |-> backend, name |-> name]

Init ==
    /\ \E input \in Inputs :
          /\ source = input.source
          /\ main_function_name = input.main_function_name
    /\ overflow_checks \in BOOLEAN
    /\ pc = "parse"
    /\ compiled_functions = <<>>
    /\ index = 0
    /\ function = NoFunction
    /\ gen = DefaultGenerator
    /\ machine_code = <<>>
    /\ pages = <<>>
    /\ fun_ptr = 0
    /\ function_catalog = <<>>
    /\ main_function = None
    /\ result = NoResult
    /\ call_stack = <<>>
    /\ lookups = {}
    /\ EncoderIdle

\* parser::parse_program(source)?
ParseProgram ==
    /\ pc = "parse"
    /\ IF source.parses
       THEN pc' = "lower" /\ UNCHANGED result
       ELSE pc' = "returned"
            /\ result' = Returned("Parser", NoError, NoBackendError, "")
    /\ UNCHANGED <<encoder_vars, source, main_function_name, overflow_checks, compiled_functions,
                   index, function, gen, machine_code, pages, fun_ptr, function_catalog,
                   main_function, call_stack, lookups>>

\* frontend::compile(program)?, then the generator and the empty catalog.
LowerProgram ==
    /\ pc = "lower"
    /\ LET lowered == compile(source.program)
       IN IF lowered.err # NoError
          THEN /\ pc' = "returned"
               /\ result' = Returned("Frontend", lowered.err, NoBackendError, "")
               /\ UNCHANGED compiled_functions
          ELSE /\ pc' = "loop"
               /\ compiled_functions' = lowered.functions
               /\ UNCHANGED result
    /\ gen' = DefaultGenerator
    /\ function_catalog' = new_catalog
    /\ UNCHANGED <<encoder_vars, source, main_function_name, overflow_checks, index, function,
                   machine_code, pages, fun_ptr, main_function, call_stack, lookups>>

\* optimization::optimize_fun(function) for the next function of the loop.
OptimizeFunction ==
    /\ pc = "loop"
    /\ index < Len(compiled_functions)
    /\ LET optimized == optimize_fun(compiled_functions[index + 1], overflow_checks)
       IN IF optimized.panic
          THEN /\ pc' = "aborted"
               /\ result' = Returned("Panic", NoError, NoBackendError, "optimize_fun")
               /\ UNCHANGED function
          ELSE /\ pc' = "generate"
               /\ function' = optimized.function
               /\ UNCHANGED result
    /\ UNCHANGED <<encoder_vars, source, main_function_name, overflow_checks, compiled_functions,
                   index, gen, machine_code, pages, fun_ptr, function_catalog,
                   main_function, call_stack, lookups>>

\* gen.generate_machine_code(function, &function_catalog)?
GenerateMachineCode ==
    /\ pc = "generate"
    /\ LET generated == generate_machine_code(gen, function)
       IN /\ gen' = generated.gen
          /\ IF generated.err = BackendPanic
             THEN /\ pc' = "aborted"
                  /\ result' = Returned("Panic", NoError, NoBackendError,
                                        "generate_machine_code")
                  /\ UNCHANGED machine_code
             ELSE IF generated.err # NoBackendError
             THEN /\ pc' = "returned"
                  /\ result' = Returned("Backend", NoError, generated.err, "")
                  /\ UNCHANGED machine_code
             ELSE /\ pc' = "map"
                  /\ machine_code' = generated.instructions
                  /\ UNCHANGED result
    /\ UNCHANGED <<encoder_vars, source, main_function_name, overflow_checks, compiled_functions,
                   index, function, pages, fun_ptr, function_catalog, main_function,
                   call_stack, lookups>>

\* to_function_pointer(&machine_code.machine_code)?: the page is mapped and
\* made executable, or mmap fails, or mprotect fails on the page just mapped.
ToFunctionPointer ==
    /\ pc = "map"
    /\ \E outcome \in {"mapped", "mmap failed", "mprotect failed"} :
          /\ pages' = IF outcome = "mmap failed" THEN pages
                      ELSE Append(pages, [function_id |-> function.id,
                                          body |-> function.body])
          /\ IF outcome = "mapped"
             THEN /\ fun_ptr' = Len(pages) + 1
                  /\ pc' = "store"
                  /\ UNCHANGED result
             ELSE /\ pc' = "returned"
                  /\ result' = Returned("Jit", NoError, NoBackendError, outcome)
                  /\ UNCHANGED fun_ptr
    /\ UNCHANGED <<encoder_vars, source, main_function_name, overflow_checks, compiled_functions,
                   index, function, gen, machine_code, function_catalog, main_function,
                   call_stack, lookups>>

\* The loop moves on without storing the pointer.
SkipStore ==
    /\ pc = "store"
    /\ pc' = "loop"
    /\ main_function' = IF main_function_name = function.name
                        THEN Some(fun_ptr)
                        ELSE main_function
    /\ index' = index + 1
    /\ UNCHANGED <<encoder_vars, source, main_function_name, overflow_checks, compiled_functions,
                   function, gen, machine_code, pages, fun_ptr, function_catalog,
                   result, call_stack, lookups>>

\* The entry pointer is the pointer of the first function, whatever its name.
StoreFirstAsMain ==
    /\ pc = "store"
    /\ LET stored == store_function_pointer(function_catalog, function.id, fun_ptr)
       IN /\ pc' = IF stored.panic THEN "aborted" ELSE "loop"
          /\ function_catalog' = stored.catalog
          /\ main_function' = IF function.id = 0 THEN Some(fun_ptr) ELSE main_function
          /\ index' = IF stored.panic THEN index ELSE index + 1
          /\ result' = IF stored.panic
                       THEN Returned("Panic", NoError, NoBackendError,
                                     "store_function_pointer")
                       ELSE result
    /\ UNCHANGED <<encoder_vars, source, main_function_name, overflow_checks, compiled_functions,
                   function, gen, machine_code, pages, fun_ptr, call_stack, lookups>>

\* function_catalog.store_function_pointer(function.id, fun_ptr), and the
\* comparison of the function's name with main_function_name.
StoreFunctionPointer ==
    /\ pc = "store"
    /\ LET stored == store_function_pointer(function_catalog, function.id, fun_ptr)
       IN IF stored.panic
          THEN /\ pc' = "aborted"
               /\ result' = Returned("Panic", NoError, NoBackendError,
                                     "store_function_pointer")
               /\ UNCHANGED <<function_catalog, main_function, index>>
          ELSE /\ pc' = "loop"
               /\ function_catalog' = stored.catalog
               /\ main_function' = IF main_function_name = function.name
                                   THEN Some(fun_ptr)
                                   ELSE main_function
               /\ index' = index + 1
               /\ UNCHANGED result
    /\ UNCHANGED <<encoder_vars, source, main_function_name, overflow_checks, compiled_functions,
                   function, gen, machine_code, pages, fun_ptr, call_stack, lookups>>

\* The program is returned as soon as the entry function is known.
ReturnAtMain ==
    /\ pc = "loop"
    /\ index = Len(compiled_functions) \/ main_function # None
    /\ pc' = "returned"
    /\ result' = IF main_function # None
                 THEN Returned("Ok", NoError, NoBackendError, "")
                 ELSE Returned("MainFunctionNotFound", NoError, NoBackendError,
                               main_function_name)
    /\ UNCHANGED <<encoder_vars, source, main_function_name, overflow_checks, compiled_functions,
                   index, function, gen, machine_code, pages, fun_ptr, function_catalog,
                   main_function, call_stack, lookups>>

\* After the loop: Ok(JitProgram) or Err(MainFunctionNotFound).
ReturnProgram ==
    /\ pc = "loop"
    /\ index = Len(compiled_functions)
    /\ pc' = "returned"
    /\ result' = IF main_function # None
                 THEN Returned("Ok", NoError, NoBackendError, "")
                 ELSE Returned("MainFunctionNotFound", NoError, NoBackendError,
                               main_function_name)
    /\ UNCHANGED <<encoder_vars, source, main_function_name, overflow_checks, compiled_functions,
                   index, function, gen, machine_code, pages, fun_ptr, function_catalog,
                   main_function, call_stack, lookups>>

\* The caller of jit_compile_program invokes the entry pointer it was given.
Frame(page, ip) == [page |-> page, ip |-> ip]

InvokeMain ==
    /\ pc = "returned"
    /\ result.kind = "Ok"
    /\ pc' = "running"
    /\ call_stack' = <<Frame(main_function[1], 1)>>
    /\ UNCHANGED <<encoder_vars, source, main_function_name, overflow_checks, compiled_functions,
                   index, function, gen, machine_code, pages, fun_ptr, function_catalog,
                   main_function, result, lookups>>

\* The position of the first Call or Ret at or after ip; Len(body) + 1 if none.
RECURSIVE next_stop(_, _)
next_stop(body, ip) ==
    IF ip > Len(body) THEN ip
    ELSE IF body[ip].op \in {"Call", "Ret"} THEN ip
    ELSE next_stop(body, ip + 1)

TopFrame == call_stack[Len(call_stack)]
TopBody == pages[TopFrame.page].body
TopStop == next_stop(TopBody, TopFrame.ip)
ReplaceTop(frame) == [call_stack EXCEPT ![Len(call_stack)] = frame]

\* jit_call_trampoline: the running code reaches a Call; the trampoline asks
\* the catalog for the callee and calls it.
TrampolineCall ==
    /\ pc = "running"
    /\ TopStop <= Len(TopBody)
    /\ TopBody[TopStop].op = "Call"
    /\ LET function_index == TopBody[TopStop].function_id
           found == get_function_pointer(function_catalog, function_index)
       IN /\ lookups' = lookups \cup {[caller |-> pages[TopFrame.page].function_id,
                                       function_id |-> function_index,
                                       found |-> ~found.panic]}
          /\ IF found.panic
             THEN /\ pc' = "aborted"
                  /\ result' = Returned("Panic", NoError, NoBackendError,
                                        "get_function_pointer")
                  /\ UNCHANGED call_stack
             ELSE /\ UNCHANGED <<pc, result>>
                  /\ call_stack' =
                        IF Len(call_stack) < MaxCallDepth
                        THEN Append(ReplaceTop(Frame(TopFrame.page, TopStop)),
                                    Frame(found.fun, 1))
                        ELSE ReplaceTop(Frame(TopFrame.page, TopStop + 1))
    /\ UNCHANGED <<encoder_vars, source, main_function_name, overflow_checks, compiled_functions,
                   index, function, gen, machine_code, pages, fun_ptr, function_catalog,
                   main_function>>

\* The running code reaches a Ret: back to the caller, after its Call.
FunctionReturn ==
    /\ pc = "running"
    /\ TopStop <= Len(TopBody)
    /\ TopBody[TopStop].op = "Ret"
    /\ LET rest == SubSeq(call_stack, 1, Len(call_stack) - 1)
       IN IF rest = <<>>
          THEN call_stack' = <<>> /\ pc' = "finished"
          ELSE /\ call_stack' = [rest EXCEPT ![Len(rest)] =
                                    Frame(rest[Len(rest)].page, rest[Len(rest)].ip + 1)]
               /\ UNCHANGED pc
    /\ UNCHANGED <<encoder_vars, source, main_function_name, overflow_checks, compiled_functions,
                   index, function, gen, machine_code, pages, fun_ptr, function_catalog,
                   main_function, result, lookups>>

\* The running code has no Ret left: it runs past the end of its page.
RunOffPage ==
    /\ pc = "running"
    /\ TopStop > Len(TopBody)
    /\ pc' = "undefined"
    /\ UNCHANGED <<encoder_vars, source, main_function_name, overflow_checks, compiled_functions,
                   index, function, gen, machine_code, pages, fun_ptr, function_catalog,
                   main_function, result, call_stack, lookups>>

Next ==
    \/ ParseProgram
    \/ LowerProgram
    \/ OptimizeFunction
    \/ GenerateMachineCode
    \/ ToFunctionPointer
    \/ StoreFunctionPointer
    \/ ReturnProgram
    \/ InvokeMain
    \/ TrampolineCall
    \/ FunctionReturn
    \/ RunOffPage

Spec == Init /\ [][Next]_vars

(***************************************************************************)
(* make_machine_code on its own: a MovImmToReg of any register and any     *)
(* immediate is encoded, and a processor whose registers hold anything     *)
(* executes the words one by one.  The driver stays where it starts.       *)
(***************************************************************************)
EncoderInit ==
    /\ source = Unparseable
    /\ main_function_name = "main"
    /\ overflow_checks = FALSE
    /\ pc = "parse"
    /\ compiled_functions = <<>>
    /\ index = 0
    /\ function = NoFunction
    /\ gen = DefaultGenerator
    /\ machine_code = <<>>
    /\ pages = <<>>
    /\ fun_ptr = 0
    /\ function_catalog = <<>>
    /\ main_function = None
    /\ result = NoResult
    /\ call_stack = <<>>
    /\ lookups = {}
    /\ \E register \in EncoderRegisters, value \in ImmValues :
          encoded = MovImmToReg(register, value)
    /\ machine_words = <<>>
    /\ executed = 0
    /\ \E before \in {0, Pow2(ImmBits) - 1} :
          cpu = [register \in EncoderRegisters |-> before]

driver_vars ==
    <<source, main_function_name, overflow_checks, pc, compiled_functions, index,
      function, gen, machine_code, pages, fun_ptr, function_catalog, main_function,
      result, call_stack, lookups>>

\* instruction.make_machine_code()
MakeMachineCode ==
    /\ machine_words = <<>>
    /\ machine_words' = make_machine_code(encoded)
    /\ UNCHANGED <<driver_vars, encoded, executed, cpu>>

\* The processor executes the next word.
ExecuteWord ==
    /\ executed < Len(machine_words)
    /\ cpu' = execute_word(machine_words[executed + 1], cpu)
    /\ executed' = executed + 1
    /\ UNCHANGED <<driver_vars, encoded, machine_words>>

EncoderNext ==
    \/ MakeMachineCode
    \/ ExecuteWord

EncoderSpec == EncoderInit /\ [][EncoderNext]_vars

(***************************************************************************)
(* The optimizer, observed where the loop of jit_compile_program has just  *)
(* optimized a function: pc = "generate", function is the optimized        *)
(* function and Lowered the function the frontend produced.                *)
(***************************************************************************)
Lowered == compiled_functions[index + 1]
Optimized == pc = "generate"

\* The argument tuples of a function: every value for each argument its body
\* reads, 0 for the arguments it never reads.
ReadArguments(body) ==
    {body[k].arg : k \in {i \in DOMAIN body : body[i].op = "MvArg"}}
ArgumentTuples(fun) ==
    {[k \in 1..fun.num_args |-> IF (k - 1) \in DOMAIN t THEN t[k - 1] ELSE 0] :
        t \in [ReadArguments(fun.body) -> Word]}
Oracles == {0, 1}

\* C1: for every lowered function the optimizer returns a body for, and for
\* every argument tuple, the optimized body evaluated up to its first Ret
\* returns the value the unoptimized body returns.
OptimizerPreservesReturnedValue ==
    Optimized =>
        \A argv \in ArgumentTuples(Lowered), oracle \in Oracles :
            Eval(function.body, argv, oracle).returned
                = Eval(Lowered.body, argv, oracle).returned

\* The optimizer shortened a body that computes its value with arithmetic the
\* optimizer could not fold, and the body returns.
OptimizedBodyReturns ==
    /\ Optimized
    /\ Len(function.body) < Len(Lowered.body)
    /\ \E k \in DOMAIN function.body : function.body[k].op = "BinOp"
    /\ \E argv \in ArgumentTuples(Lowered) :
          Eval(function.body, argv, 0).returned # None

\* C2: for every lowered function and every argument tuple, the optimized
\* body executes the Calls the unoptimized body executes: the same callees
\* with the same argument values in the same order.
OptimizerPreservesCalls ==
    Optimized =>
        \A argv \in ArgumentTuples(Lowered), oracle \in Oracles :
            Eval(function.body, argv, oracle).calls
                = Eval(Lowered.body, argv, oracle).calls

\* C3: optimizing the optimized function again returns the same body and the
\* same num_used_registers.
OptimizerIsIdempotent ==
    Optimized =>
        LET again == optimize_fun(function, overflow_checks)
        IN /\ ~again.panic
           /\ again.function.body = function.body
           /\ again.function.num_used_registers = function.num_used_registers

\* The first run of the optimizer changed the body, and what it left still has
\* a constant, an operation and a Ret.
OptimizerChangedBody ==
    /\ Optimized
    /\ function.body # Lowered.body
    /\ Len(function.body) >= 3
    /\ \E k \in DOMAIN function.body : function.body[k].op = "Mvi"

\* The instructions of a body that write a destination.
Writers(body) == SelectSeq(body, LAMBDA instruction : instruction.op # "Ret")

\* C4: in an optimized body the k-th instruction that writes a destination
\* writes register k (from 0), every register read is the destination of an
\* earlier instruction, and num_used_registers is the number of writers.
OptimizedBodyDenselyRenamed ==
    Optimized =>
        /\ \A k \in DOMAIN Writers(function.body) :
              Writers(function.body)[k].dest = k - 1
        /\ \A i \in DOMAIN function.body :
              \A r \in reads(function.body[i]) :
                 \E j \in 1..(i - 1) :
                    function.body[j].op # "Ret" /\ function.body[j].dest = r
        /\ function.num_used_registers = Len(Writers(function.body))

\* The optimizer removed instructions in the middle of a body, so that the
\* registers of the instructions it kept had to be renamed.
RegistersWereRenamed ==
    /\ Optimized
    /\ function.num_used_registers >= 2
    /\ \E i \in DOMAIN function.body, j \in DOMAIN Lowered.body :
          /\ function.body[i].op = "BinOp"
          /\ Lowered.body[j].op = "BinOp"
          /\ function.body[i].dest < Lowered.body[j].dest
          /\ function.body[i].operator = Lowered.body[j].operator

(***************************************************************************)
(* The driver and the catalog.                                             *)
(***************************************************************************)
\* C5: when jit_compile_program returns a JitProgram the catalog holds the
\* pointer of every function of the program, each at its own id, and every
\* get_function_pointer the trampoline performs while the entry pointer runs
\* finds an entry, also when the callee is declared after the caller.
CatalogCompleteBeforeExecution ==
    /\ result.kind = "Ok" =>
          /\ Len(function_catalog) = Len(source.program)
          /\ \A k \in DOMAIN function_catalog :
                pages[function_catalog[k]].function_id = k - 1
    /\ \A l \in lookups : l.found

\* The running code called, through the trampoline, a function declared after
\* its caller, and the catalog had its pointer.
ForwardCallResolved ==
    \E l \in lookups : l.found /\ l.function_id > l.caller

\* C6: store_function_pointer is called with the id equal to the number of
\* pointers stored so far, once per completed iteration of the loop, so its
\* assertion never fires.
StoresInIdOrder ==
    /\ pc = "store" => function.id = Len(function_catalog)
    /\ Len(function_catalog) = index
    /\ ~(result.kind = "Panic" /\ result.name = "store_function_pointer")

\* The pointer of the second function has been stored after that of the first.
SecondPointerStored ==
    /\ Len(function_catalog) = 2
    /\ function.id = 1
    /\ pc = "loop"

\* C7 as stated: when jit_compile_program fails with a BackendError no page
\* has been mapped and no catalog entry has been stored.
BackendErrorBeforeAnyPage ==
    result.kind = "Backend" => pages = <<>> /\ function_catalog = <<>>

\* C7 amended: when jit_compile_program fails with a BackendError, the pages
\* mapped and the entries stored are exactly those of the functions declared
\* before the failing one: one page and one entry per earlier function, in
\* id order, and none for the failing function or a later one.
BackendErrorAfterEarlierFunctions ==
    result.kind = "Backend" =>
        /\ function.id = index
        /\ Len(pages) = index
        /\ Len(function_catalog) = index
        /\ \A k \in 1..index :
              pages[k].function_id = k - 1 /\ function_catalog[k] = k

\* A BackendError for the second function, returned with the page of the
\* first function mapped and its pointer stored.
BackendErrorWithPageMapped ==
    /\ result.kind = "Backend"
    /\ index = 1
    /\ Len(pages) = 1
    /\ function_catalog = <<1>>

\* The functions of a program whose lowering fails, by position.
GlobalTable(program) == store_functions(program, 0, EmptyTable)
LoweringOf(program, k) == compile_function(program[k], k - 1, GlobalTable(program))
FailingFunctions(program) ==
    {k \in DOMAIN program : LoweringOf(program, k).err # NoError}
SetMin(S) == CHOOSE m \in S : \A o \in S : m <= o

HasReturned == result.kind \notin {"None", "Panic"}

\* C8: jit_compile_program reports a Parser error exactly when the source
\* does not parse; otherwise the FrontendError of the first function whose
\* lowering fails, before anything is emitted; otherwise the Backend or Mmap
\* error of the first function that fails, every earlier function mapped and
\* stored; and MainFunctionNotFound(name) exactly when every function was
\* lowered, emitted, mapped and stored and none has the entry name.
ErrorsInPipelineOrder ==
    /\ HasReturned => (result.kind = "Parser" <=> ~source.parses)
    /\ HasReturned /\ source.parses =>
          (result.kind = "Frontend" <=> FailingFunctions(source.program) # {})
    /\ result.kind = "Frontend" =>
          /\ result.error
                = LoweringOf(source.program,
                             SetMin(FailingFunctions(source.program))).err
          /\ pages = <<>>
          /\ machine_code = <<>>
          /\ gen = DefaultGenerator
    /\ result.kind \in {"Backend", "Jit"} =>
          /\ function.id = index
          /\ Len(function_catalog) = index
          /\ \A k \in 1..index : pages[k].function_id = k - 1
    /\ HasReturned =>
          (result.kind = "MainFunctionNotFound"
              <=> /\ source.parses
                  /\ FailingFunctions(source.program) = {}
                  /\ Len(function_catalog) = Len(source.program)
                  /\ Len(pages) = Len(source.program)
                  /\ \A k \in DOMAIN source.program :
                        source.program[k].name # main_function_name)
    /\ result.kind = "MainFunctionNotFound" => result.name = main_function_name

\* The FrontendError of the second function is reported although the first
\* function, lowered without error, is one the backend refuses.
FrontendErrorBeforeBackendError ==
    /\ result.kind = "Frontend"
    /\ Len(source.program) = 2
    /\ SetMin(FailingFunctions(source.program)) = 2
    /\ Len(source.program[1].args) > Len(ArgumentRegisters)

(***************************************************************************)
(* The frontend, observed once frontend::compile has run: either the loop  *)
(* has been entered or a FrontendError has been returned.                  *)
(***************************************************************************)
LoweringSucceeded == source.parses /\ pc \notin {"parse", "lower"} /\ result.kind # "Frontend"
LoweringFailed == result.kind = "Frontend"

\* The calls written in an expression and in a block: the callee's name and
\* the number of arguments supplied.
RECURSIVE calls_in(_)
calls_in(expression) ==
    CASE expression.tag \in {"Identifier", "Number"} -> {}
      [] expression.tag = "FunctionCall" ->
            {[name |-> expression.name, actual |-> Len(expression.args)]}
            \cup UNION {calls_in(expression.args[k]) : k \in DOMAIN expression.args}
      [] expression.tag = "Negate" -> calls_in(expression.expr)
      [] OTHER -> calls_in(expression.left) \cup calls_in(expression.right)

RECURSIVE calls_in_block(_)
calls_in_block(block) ==
    UNION {IF block[k].tag = "NestedBlock"
           THEN calls_in_block(block[k].block)
           ELSE calls_in(block[k].expression) : k \in DOMAIN block}

calls_in_program(program) ==
    UNION {calls_in_block(program[k].block) : k \in DOMAIN program}

\* The functions of a program declared with a name, by position.
Declarations(program, name) == {k \in DOMAIN program : program[k].name = name}

\* C9: when frontend::compile succeeds every call written in the program
\* names a declared function and supplies as many arguments as a declaration
\* of that name has parameters, and every Call of the emitted IR has a
\* function_id that indexes a function of the program and as many args as
\* that function's num_args; an UnknownFunctionCalled or
\* InvalidArgumentsToFunctionCall error names the callee of a call written in
\* the program, the second with expected the declared and actual the supplied
\* number of arguments.
CallsAreChecked ==
    /\ LoweringSucceeded /\ pc = "loop" /\ index = 0 =>
          /\ \A c \in calls_in_program(source.program) :
                \E k \in Declarations(source.program, c.name) :
                   Len(source.program[k].args) = c.actual
          /\ \A f \in DOMAIN compiled_functions :
                \A i \in DOMAIN compiled_functions[f].body :
                   LET instruction == compiled_functions[f].body[i]
                   IN instruction.op = "Call" =>
                         /\ instruction.function_id < Len(compiled_functions)
                         /\ Len(instruction.args)
                               = compiled_functions[instruction.function_id + 1].num_args
                         /\ source.program[instruction.function_id + 1].name
                               = instruction.name
    /\ LoweringFailed /\ result.error.kind = "UnknownFunctionCalled" =>
          \E c \in calls_in_program(source.program) : c.name = result.error.name
    /\ LoweringFailed /\ result.error.kind = "InvalidArgumentsToFunctionCall" =>
          /\ result.error.expected # result.error.actual
          /\ \E c \in calls_in_program(source.program) :
                c.name = result.error.name /\ c.actual = result.error.actual
          /\ \E k \in Declarations(source.program, result.error.name) :
                Len(source.program[k].args) = result.error.expected

\* A call with no argument to a function declared with one parameter was
\* rejected.
ArityMismatchRejected ==
    /\ LoweringFailed
    /\ result.error = FrontendError("InvalidArgumentsToFunctionCall", "g", 1, 0)

\* Whether an expression reads a name, and whether a statement reads or
\* assigns it.
RECURSIVE mentions(_, _)
mentions(expression, name) ==
    CASE expression.tag = "Identifier" -> expression.name = name
      [] expression.tag = "Number" -> FALSE
      [] expression.tag = "FunctionCall" ->
            \E k \in DOMAIN expression.args : mentions(expression.args[k], name)
      [] expression.tag = "Negate" -> mentions(expression.expr, name)
      [] OTHER -> mentions(expression.left, name) \/ mentions(expression.right, name)

touches(element, name) ==
    CASE element.tag = "NestedBlock" -> FALSE
      [] element.tag = "AssignmentStatement" ->
            element.name = name \/ mentions(element.expression, name)
      [] OTHER -> mentions(element.expression, name)

\* The names bound by the let statements of a block, at any depth.
RECURSIVE lets_in_block(_)
lets_in_block(block) ==
    UNION {IF block[k].tag = "NestedBlock" THEN lets_in_block(block[k].block)
           ELSE IF block[k].tag = "LetStatement" THEN {block[k].name}
           ELSE {} : k \in DOMAIN block}

\* The statement at which the lowering of a block stops, when that statement
\* is a let of one of the function's arguments: its name, and whether an
\* earlier statement of the same block or of an enclosing one (not of a
\* nested block already closed) reads or assigns that name.  touched holds
\* the arguments read or assigned so far.
RECURSIVE shadowing_let(_, _, _, _)
shadowing_let(fc, block, args, touched) ==
    IF block = <<>> THEN {}
    ELSE IF compile_element(fc, Head(block)).err = NoError
    THEN shadowing_let(compile_element(fc, Head(block)), Tail(block), args,
                       touched \cup {n \in args : touches(Head(block), n)})
    ELSE IF Head(block).tag = "NestedBlock"
    THEN shadowing_let([fc EXCEPT !.scopes = Append(@, EmptyTable)],
                       Head(block).block, args, touched)
    ELSE IF Head(block).tag = "LetStatement" /\ Head(block).name \in args
    THEN {[name |-> Head(block).name, touched |-> Head(block).name \in touched]}
    ELSE {}

Parameters(fun) == {fun.args[k] : k \in DOMAIN fun.args}

\* The let of an argument at which the lowering of the program stopped.
FailingLet ==
    LET fun == source.program[SetMin(FailingFunctions(source.program))]
    IN shadowing_let([body |-> <<>>, next_free_reg |-> 0,
                      scopes |-> <<GlobalTable(source.program),
                                   define_args(fun.args, 0, EmptyTable),
                                   EmptyTable>>,
                      err |-> NoError, reg |-> 0],
                     fun.block, Parameters(fun), {})

NoLetOfArgumentCompiles ==
    LoweringSucceeded /\ pc = "loop" /\ index = 0 =>
        \A k \in DOMAIN source.program :
            lets_in_block(source.program[k].block) \cap Parameters(source.program[k]) = {}

\* C10 as stated: a let whose name is an argument of the enclosing function
\* never compiles, and the lowering that reaches it fails with
\* VariableCannotShadowArgument naming it, whatever precedes it.
LetOfArgumentAlwaysCannotShadow ==
    /\ NoLetOfArgumentCompiles
    /\ LoweringFailed =>
          \A l \in FailingLet :
             result.error = FrontendError("VariableCannotShadowArgument", l.name, 0, 0)

\* C10 amended: a let whose name is an argument of the enclosing function
\* never compiles; the lowering that reaches it fails with
\* VariableCannotShadowArgument naming it unless an earlier statement of the
\* same block or of an enclosing block reads or assigns the argument, and
\* then it fails with VariableAlreadyDefined naming it.
LetOfArgumentNeverCompiles ==
    /\ NoLetOfArgumentCompiles
    /\ LoweringFailed =>
          \A l \in FailingLet :
             result.error = FrontendError(IF l.touched
                                          THEN "VariableAlreadyDefined"
                                          ELSE "VariableCannotShadowArgument",
                                          l.name, 0, 0)

\* The lowering stopped at a let of an argument that an earlier statement had
\* read or assigned, with VariableAlreadyDefined.
LetOfReadArgumentRejected ==
    /\ LoweringFailed
    /\ \E l \in FailingLet : l.touched
    /\ result.error.kind = "VariableAlreadyDefined"

(***************************************************************************)
(* Scoping, read off the syntax tree: declared holds the names bound by    *)
(* the let statements of the block being walked and of the blocks that     *)
(* enclose it, up to the statement at hand.                                *)
(***************************************************************************)
\* The names an expression reads.
RECURSIVE identifiers(_)
identifiers(expression) ==
    CASE expression.tag = "Identifier" -> {expression.name}
      [] expression.tag = "Number" -> {}
      [] expression.tag = "FunctionCall" ->
            UNION {identifiers(expression.args[k]) : k \in DOMAIN expression.args}
      [] expression.tag = "Negate" -> identifiers(expression.expr)
      [] OTHER -> identifiers(expression.left) \cup identifiers(expression.right)

\* The lets of a block that name a variable declared before them in the same
\* block or in an enclosing one.
RECURSIVE redeclarations(_, _)
redeclarations(block, declared) ==
    IF block = <<>> THEN {}
    ELSE IF Head(block).tag = "NestedBlock"
    THEN redeclarations(Head(block).block, declared)
         \cup redeclarations(Tail(block), declared)
    ELSE IF Head(block).tag = "LetStatement"
    THEN (IF Head(block).name \in declared THEN {Head(block).name} ELSE {})
         \cup redeclarations(Tail(block), declared \cup {Head(block).name})
    ELSE redeclarations(Tail(block), declared)

\* The names a block reads or assigns where they are neither declared nor
\* arguments.
RECURSIVE unresolved_names(_, _, _)
unresolved_names(block, declared, args) ==
    IF block = <<>> THEN {}
    ELSE IF Head(block).tag = "NestedBlock"
    THEN unresolved_names(Head(block).block, declared, args)
         \cup unresolved_names(Tail(block), declared, args)
    ELSE ((identifiers(Head(block).expression)
              \cup (IF Head(block).tag = "AssignmentStatement"
                    THEN {Head(block).name} ELSE {}))
            \ (declared \cup args))
         \cup unresolved_names(Tail(block),
                               IF Head(block).tag = "LetStatement"
                               THEN declared \cup {Head(block).name}
                               ELSE declared,
                               args)

\* The statement at which the lowering of a block stops, with the names
\* declared at that point and the number of blocks nested around it.
RECURSIVE stopping_point(_, _, _, _)
stopping_after(one, fc, block, declared, depth) ==
    IF one.err = NoError
    THEN stopping_point(one, Tail(block),
                        IF Head(block).tag = "LetStatement"
                        THEN declared \cup {Head(block).name}
                        ELSE declared,
                        depth)
    ELSE IF Head(block).tag = "NestedBlock"
    THEN stopping_point([fc EXCEPT !.scopes = Append(@, EmptyTable)],
                        Head(block).block, declared, depth + 1)
    ELSE {[element |-> Head(block), declared |-> declared, depth |-> depth]}

stopping_point(fc, block, declared, depth) ==
    IF block = <<>> THEN {}
    ELSE stopping_after(compile_element(fc, Head(block)), fc, block, declared, depth)

FailingFunction == source.program[SetMin(FailingFunctions(source.program))]

\* The statement at which the lowering of the program stopped.
StoppingPoint ==
    stopping_point([body |-> <<>>, next_free_reg |-> 0,
                    scopes |-> <<GlobalTable(source.program),
                                 define_args(FailingFunction.args, 0, EmptyTable),
                                 EmptyTable>>,
                    err |-> NoError, reg |-> 0],
                   FailingFunction.block, {}, 0)

JustLowered == LoweringSucceeded /\ pc = "loop" /\ index = 0

\* C11: a program in which a let names a variable declared earlier in the
\* same block or in an enclosing block does not compile, and the lowering
\* that stops at such a let fails with VariableAlreadyDefined naming it.
DeclaredVariableCannotBeRedeclared ==
    /\ JustLowered =>
          \A k \in DOMAIN source.program :
             redeclarations(source.program[k].block, {}) = {}
    /\ LoweringFailed =>
          \A p \in StoppingPoint :
             p.element.tag = "LetStatement" /\ p.element.name \in p.declared =>
                result.error
                   = FrontendError("VariableAlreadyDefined", p.element.name, 0, 0)

\* The lowering stopped, with VariableAlreadyDefined, at a let in a nested
\* block whose name the enclosing block had declared.
ShadowingInNestedBlockRejected ==
    /\ LoweringFailed
    /\ result.error.kind = "VariableAlreadyDefined"
    /\ \E p \in StoppingPoint :
          /\ p.depth = 1
          /\ p.element.tag = "LetStatement"
          /\ p.element.name \in p.declared

\* C12: a program that reads or assigns a name where it is neither a
\* declared variable nor an argument does not compile; an assignment to such
\* a name, and a statement whose expression is such a name, fail with
\* VariableNotDefined naming it; and VariableNotDefined always names a name
\* the failing statement reads or assigns and that does not resolve there.
\* A variable declared in a nested block is not declared after the block.
UnresolvedNameRejected ==
    /\ JustLowered =>
          \A k \in DOMAIN source.program :
             unresolved_names(source.program[k].block, {},
                              Parameters(source.program[k])) = {}
    /\ LoweringFailed =>
          \A p \in StoppingPoint :
             LET visible == p.declared \cup Parameters(FailingFunction)
             IN /\ p.element.tag = "AssignmentStatement"
                   /\ p.element.name \notin visible =>
                      result.error
                         = FrontendError("VariableNotDefined", p.element.name, 0, 0)
                /\ (/\ p.element.tag = "AssignmentStatement"
                          => p.element.name \in visible
                    /\ p.element.tag = "LetStatement"
                          => p.element.name \notin visible
                    /\ p.element.expression.tag = "Identifier"
                    /\ p.element.expression.name \notin visible)
                   => result.error
                         = FrontendError("VariableNotDefined",
                                         p.element.expression.name, 0, 0)
                /\ result.error.kind = "VariableNotDefined" =>
                      /\ result.error.name \notin visible
                      /\ touches(p.element, result.error.name)

\* The lowering stopped with VariableNotDefined at a statement of the
\* function's block that reads or assigns a variable declared in the nested
\* block just before it.
VariableOfClosedBlockNotDefined ==
    /\ LoweringFailed
    /\ result.error.kind = "VariableNotDefined"
    /\ \E p \in StoppingPoint :
          /\ p.depth = 0
          /\ FailingFunction.block[1].tag = "NestedBlock"
          /\ result.error.name \in lets_in_block(FailingFunction.block[1].block)
          /\ touches(p.element, result.error.name)

\* C13: frontend::compile returns one CompiledFunction per function of the
\* program, in declaration order, the k-th (from 0) with id k and with the
\* name and the number of parameters of the k-th declaration; every Call it
\* emits carries the id of the declaration of the callee's name (the last
\* one, if the name is declared more than once), whether that declaration
\* comes before or after the caller; and a call is rejected as unknown only
\* if no function of the program has that name or a variable or argument of
\* that name is in scope.
CompiledInDeclarationOrder ==
    /\ JustLowered =>
          /\ Len(compiled_functions) = Len(source.program)
          /\ \A k \in DOMAIN compiled_functions :
                /\ compiled_functions[k].id = k - 1
                /\ compiled_functions[k].name = source.program[k].name
                /\ compiled_functions[k].num_args = Len(source.program[k].args)
                /\ \A i \in DOMAIN compiled_functions[k].body :
                      LET instruction == compiled_functions[k].body[i]
                      IN instruction.op = "Call" =>
                            instruction.function_id + 1
                               = SetMax(Declarations(source.program, instruction.name))
    /\ LoweringFailed /\ result.error.kind = "UnknownFunctionCalled" =>
          \A p \in StoppingPoint :
             \/ Declarations(source.program, result.error.name) = {}
             \/ result.error.name \in p.declared \cup Parameters(FailingFunction)

\* The lowering succeeded on a program whose first function calls its second.
ForwardCallLowered ==
    /\ JustLowered
    /\ Len(compiled_functions) = 2
    /\ \E i \in DOMAIN compiled_functions[1].body :
          /\ compiled_functions[1].body[i].op = "Call"
          /\ compiled_functions[1].body[i].function_id = 1

(***************************************************************************)
(* The AArch64 emitter, observed where generate_machine_code has just      *)
(* returned machine code: pc = "map", machine_code holds the instructions  *)
(* and gen the generator it left behind.                                   *)
(***************************************************************************)
Emitted == pc = "map"

\* The frame of the function just emitted: the least multiple of 16 that is
\* not below max_stack_offset.
FRAME ==
    CHOOSE depth \in 0..(gen.max_stack_offset + 15) :
        depth % 16 = 0 /\ depth >= gen.max_stack_offset

Positions(instructions, kind) ==
    {k \in DOMAIN instructions : instructions[k].i = kind}

Rets(body) == SelectSeq(body, LAMBDA instruction : instruction.op = "Ret")

\* The positions of a kind of instruction, in increasing order.
RECURSIVE Ascending(_)
Ascending(S) ==
    IF S = {} THEN <<>> ELSE <<SetMin(S)>> \o Ascending(S \ {SetMin(S)})

\* C14: in the machine code of every function the emitter compiles, FRAME is
\* a multiple of 16 and at least 16; the first instruction is
\* stp x29, x30, [sp, #-FRAME]! and no other instruction is an stp; the j-th
\* Ret of the body is emitted as mov x0, reg; ldp x29, x30, [sp], #FRAME; ret
\* with reg the register allocated to its operand, and there is no other ldp
\* or ret; and no nop is left.
FrameIsAlignedAndRestored ==
    Emitted =>
        /\ FRAME % 16 = 0
        /\ FRAME >= 16
        /\ machine_code[1] = Stp("X29", "X30", "Sp", 0 - FRAME, TRUE)
        /\ Positions(machine_code, "Stp") = {1}
        /\ Positions(machine_code, "Nop") = {}
        /\ Cardinality(Positions(machine_code, "Ldp")) = Len(Rets(function.body))
        /\ Positions(machine_code, "Ret")
              = {k + 1 : k \in Positions(machine_code, "Ldp")}
        /\ \A j \in DOMAIN Rets(function.body) :
              LET k == Ascending(Positions(machine_code, "Ldp"))[j]
              IN /\ machine_code[k - 1]
                       = MovRegToReg(gen.locations[Rets(function.body)[j].reg].register,
                                     "X0")
                 /\ machine_code[k] = Ldp("X29", "X30", "Sp", FRAME)

\* The emitter compiled a function that calls and returns, whose saves make
\* the deepest offset no multiple of 16.
FrameRoundedUp ==
    /\ Emitted
    /\ gen.max_stack_offset % 16 # 0
    /\ Positions(machine_code, "Str") # {}
    /\ Positions(machine_code, "Ldp") # {}

(***************************************************************************)
(* The encoding of MovImmToReg, observed under EncoderSpec.                *)
(***************************************************************************)
\* The number of lanes the unsigned view of an immediate needs.
LanesNeeded(imm) ==
    CHOOSE n \in 1..4 :
        /\ imm < Pow2(n * LaneBits)
        /\ n > 1 => imm >= Pow2((n - 1) * LaneBits)

\* C15: for every immediate v, MovImmToReg is encoded as 1, 2, 3 or 4 words
\* when v viewed as unsigned fits in 1, 2, 3 or 4 lanes and in no fewer: a
\* movz carrying lane 0, then a movk for each higher lane up to the highest
\* non-zero one, every word naming the destination register; and once the
\* processor has executed the words the destination register holds exactly
\* v, whatever it held before, and the other registers are unchanged.
MovImmEncodesValue ==
    machine_words # <<>> =>
        /\ Len(machine_words) = LanesNeeded(as_u64(encoded.value))
        /\ machine_words[1].base = MOVZ
        /\ \A k \in DOMAIN machine_words :
              /\ lane_of(machine_words[k].base) = k - 1
              /\ machine_words[k].imm16 = lane(as_u64(encoded.value), k - 1)
              /\ machine_words[k].rd = encoded.register
        /\ executed = Len(machine_words) =>
              /\ as_i64(cpu[encoded.register]) = encoded.value
              /\ \A register \in EncoderRegisters \ {encoded.register} :
                    cpu[register] \in {0, Pow2(ImmBits) - 1}

\* A negative immediate whose second lane is zero has been encoded in four
\* words and executed on a register that held all ones.
NegativeImmediateExecuted ==
    /\ encoded.i = "MovImmToReg"
    /\ encoded.value < 0
    /\ lane(as_u64(encoded.value), 1) = 0
    /\ Len(machine_words) = 4
    /\ executed = 4
    /\ \E register \in EncoderRegisters \ {encoded.register} :
          cpu[register] = Pow2(ImmBits) - 1

(***************************************************************************)
(* The supported grid of the AArch64 emitter, observed where               *)
(* generate_machine_code has just returned for the function at hand.       *)
(***************************************************************************)
\* Some destination or operand of some instruction is allocated to the stack.
MentionsStack ==
    \E i \in DOMAIN function.body :
        \E k \in DOMAIN operands(function.body[i]) :
            gen.locations[operands(function.body[i])[k]].kind = "Stack"

OutsideGrid ==
    \/ MentionsStack
    \/ function.num_args > Len(ArgumentRegisters)
    \/ \E i \in DOMAIN function.body :
          /\ function.body[i].op = "Call"
          /\ Len(function.body[i].args) > Len(ArgumentRegisters) - 2

\* C16: generate_machine_code returns machine code for a function inside the
\* grid and BackendError::NotImplemented for a function outside it, and never
\* anything else: a function is outside the grid when a destination or
\* operand register of one of its instructions is allocated to the stack, or
\* it declares more than 8 parameters, or one of its Calls passes more than 6
\* arguments.
GridIsExact ==
    /\ Emitted => ~OutsideGrid
    /\ result.kind = "Backend" =>
          result.backend.kind = "NotImplemented" /\ OutsideGrid
    /\ ~(result.kind = "Panic" /\ result.name = "generate_machine_code")

\* A function whose Call passes seven arguments, all from one register, was
\* refused after a function whose Call passes six had been compiled.
SevenArgumentsRefusedAfterSix ==
    /\ result.kind = "Backend"
    /\ ~MentionsStack
    /\ function.num_args <= Len(ArgumentRegisters)
    /\ index = 1
    /\ \E i \in DOMAIN pages[1].body :
          pages[1].body[i].op = "Call" /\ Len(pages[1].body[i].args) = 6

(***************************************************************************)
(* The saves and restores around a blr.  A frame slot is written by str     *)
(* alone, so an ldr reads what the latest str to its offset stored.         *)
(***************************************************************************)
\* The position of the str whose value the ldr at position j reads, 0 if none.
LatestStore(instructions, j) ==
    LET stores == {i \in 1..(j - 1) : /\ instructions[i].i = "Str"
                                     /\ instructions[i].offset = instructions[j].offset}
    IN IF stores = {} THEN 0
       ELSE CHOOSE i \in stores : \A other \in stores : other <= i

\* C17: in the machine code of every function the emitter compiles, each ldr
\* reloads its register from the frame offset that register was last stored
\* to, every str is matched by one ldr, and so the stack cursor ends each
\* Call sequence where it began: the restores mirror the saves.
RestoresMirrorSaves ==
    Emitted =>
        /\ \A j \in Positions(machine_code, "Ldr") :
              /\ LatestStore(machine_code, j) # 0
              /\ machine_code[LatestStore(machine_code, j)].source
                    = machine_code[j].destination
        /\ Cardinality(Positions(machine_code, "Str"))
              = Cardinality(Positions(machine_code, "Ldr"))

(***************************************************************************)
(* Arguments and nested blocks, observed on the lowered bodies.             *)
(***************************************************************************)
\* The block ends with { name = n; } return name; for a number n.
EndsWithNestedAssignmentThenRead(block) ==
    /\ Len(block) >= 2
    /\ block[Len(block)].tag = "ReturnStatement"
    /\ block[Len(block)].expression.tag = "Identifier"
    /\ block[Len(block) - 1].tag = "NestedBlock"
    /\ Len(block[Len(block) - 1].block) = 1
    /\ block[Len(block) - 1].block[1].tag = "AssignmentStatement"
    /\ block[Len(block) - 1].block[1].name = block[Len(block)].expression.name
    /\ block[Len(block) - 1].block[1].expression.tag = "Number"

\* The register the last Mvi of a body wrote.
LastMviDest(body) ==
    body[SetMax(Positions([k \in DOMAIN body |-> [i |-> body[k].op]], "Mvi"))].dest

\* C18: an assignment name = n made in a nested block is visible after the
\* block: where a function's block ends with { name = n; } return name; the
\* body ends with the Ret of the register that holds n, the one its Mvi wrote.
NestedAssignmentVisibleAfterBlock ==
    JustLowered =>
        \A k \in DOMAIN source.program :
            EndsWithNestedAssignmentThenRead(source.program[k].block) =>
                LET body == compiled_functions[k].body
                IN body[Len(body)] = Ret(LastMviDest(body))

\* C19: in the lowered body of every function each argument index is the
\* source of at most one MvArg.
ArgumentMovedAtMostOnce ==
    JustLowered =>
        \A k \in DOMAIN compiled_functions :
            \A arg \in 0..(compiled_functions[k].num_args - 1) :
                Cardinality({i \in DOMAIN compiled_functions[k].body :
                                /\ compiled_functions[k].body[i].op = "MvArg"
                                /\ compiled_functions[k].body[i].arg = arg}) <= 1

(***************************************************************************)
(* Constant division by zero, observed where optimize_fun has run on        *)
(* Lowered: it returned (pc = "generate") or it panicked.                   *)
(***************************************************************************)
OptimizerPanicked ==
    pc = "aborted" /\ result.kind = "Panic" /\ result.name = "optimize_fun"

\* The positions of the divisions of a body whose operands were both written
\* by an Mvi, the divisor's Mvi writing 0.
ConstantDivisionsByZero(body) ==
    {i \in DOMAIN body :
        /\ body[i].op = "BinOp"
        /\ body[i].operator = "Div"
        /\ \E j \in 1..(i - 1) : body[j].op = "Mvi" /\ body[j].dest = body[i].op1
        /\ \E j \in 1..(i - 1) : body[j] = Mvi(body[i].op2, 0)}

\* C20: propagate_constants does not fold a division of two known constants
\* whose divisor is 0: the pass completes normally and leaves the BinOp in
\* place unchanged, so optimize_fun returns for a function that has one.
DivisionByZeroLeftInPlace ==
    (Optimized \/ OptimizerPanicked) =>
        \A i \in ConstantDivisionsByZero(Lowered.body) :
            LET propagated == propagate_constants(Lowered.body,
                                                  Lowered.num_used_registers,
                                                  overflow_checks)
            IN /\ ~OptimizerPanicked
               /\ ~propagated.panic
               /\ propagated.body[i] = Lowered.body[i]

(***************************************************************************)
(* The folds of propagate_constants against signed arithmetic that wraps,   *)
(* observed where optimize_fun has run on Lowered.                          *)
(***************************************************************************)
\* The reference result: +, -, * wrap, / truncates toward zero.
ReferenceBinOp(operator, value1, value2) ==
    CASE operator = "Add" -> Wrap(value1 + value2)
      [] operator = "Sub" -> Wrap(value1 - value2)
      [] operator = "Mul" -> Wrap(value1 * value2)
      [] operator = "Div" -> Wrap(TruncDiv(value1, value2))

\* The immediate of the Mvi that writes a register in a body.
ConstantOf(body, reg) ==
    body[CHOOSE j \in DOMAIN body : body[j].op = "Mvi" /\ body[j].dest = reg].val

\* The positions of the instructions propagate_constants replaced by an Mvi.
Folded(before, after) ==
    {i \in DOMAIN after : after[i].op = "Mvi" /\ before[i].op \in {"BinOp", "Neg"}}

\* C21: optimize_fun never aborts in propagate_constants, and the immediate
\* written by every fold is the reference result on the constants of its
\* operands: Add, Sub, Mul and Neg wrap, Div truncates toward zero.
FoldsMatchWrappingArithmetic ==
    (Optimized \/ OptimizerPanicked) =>
        LET propagated == propagate_constants(Lowered.body, Lowered.num_used_registers,
                                              overflow_checks)
        IN /\ ~OptimizerPanicked
           /\ ~propagated.panic
           /\ \A i \in Folded(Lowered.body, propagated.body) :
                 LET before == Lowered.body[i]
                 IN propagated.body[i].val
                       = IF before.op = "Neg"
                         THEN Wrap(0 - ConstantOf(propagated.body, before.op1))
                         ELSE ReferenceBinOp(before.operator,
                                             ConstantOf(propagated.body, before.op1),
                                             ConstantOf(propagated.body, before.op2))

(***************************************************************************)
(* deduplicate_constants, observed where optimize_fun has returned: it ran  *)
(* on the body propagate_constants made of Lowered.                         *)
(***************************************************************************)
Propagated ==
    propagate_constants(Lowered.body, Lowered.num_used_registers, overflow_checks).body

Deduplicated == deduplicate_constants(Propagated, Lowered.num_used_registers)

\* The positions of the Mvi of a body that repeat the value of an earlier Mvi.
RepeatedConstants(body) ==
    {i \in DOMAIN body :
        /\ body[i].op = "Mvi"
        /\ \E j \in 1..(i - 1) : body[j].op = "Mvi" /\ body[j].val = body[i].val}

\* The register an operand is to name: the destination of the first Mvi of
\* the value if the register is written by a repeated Mvi, else itself.
FirstHolder(body, reg) ==
    IF \E i \in RepeatedConstants(body) : body[i].dest = reg
    THEN LET val == body[CHOOSE i \in RepeatedConstants(body) : body[i].dest = reg].val
             first == CHOOSE j \in DOMAIN body :
                          /\ body[j].op = "Mvi"
                          /\ body[j].val = val
                          /\ \A o \in 1..(j - 1) : body[o].op = "Mvi" => body[o].val # val
         IN body[first].dest
    ELSE reg

\* An instruction with every operand it reads sent through FirstHolder.
WithFirstHolders(body, instruction) ==
    CASE instruction.op = "BinOp" ->
            [instruction EXCEPT !.op1 = FirstHolder(body, @),
                                !.op2 = FirstHolder(body, @)]
      [] instruction.op = "Neg" -> [instruction EXCEPT !.op1 = FirstHolder(body, @)]
      [] instruction.op = "Ret" -> [instruction EXCEPT !.reg = FirstHolder(body, @)]
      [] instruction.op = "Call" ->
            [instruction EXCEPT !.args = [k \in DOMAIN @ |-> FirstHolder(body, @[k])]]
      [] OTHER -> instruction

\* C22: after deduplicate_constants no two Mvi load the same value; the body
\* is the input without its repeated Mvi, in order, every operand that named
\* the register of a dropped Mvi naming the register of the first Mvi of that
\* value, and every destination unchanged.
ConstantsDeduplicated ==
    Optimized =>
        /\ \A i, j \in DOMAIN Deduplicated :
              /\ Deduplicated[i].op = "Mvi"
              /\ Deduplicated[j].op = "Mvi"
              /\ i # j
              => Deduplicated[i].val # Deduplicated[j].val
        /\ LET kept == Ascending(DOMAIN Propagated \ RepeatedConstants(Propagated))
           IN /\ Len(Deduplicated) = Len(kept)
              /\ \A k \in DOMAIN kept :
                    Deduplicated[k] = WithFirstHolders(Propagated, Propagated[kept[k]])

\* A Call whose argument was loaded by a repeated Mvi now passes the register
\* of the first Mvi.
ReaderOfRepeatedConstantRedirected ==
    /\ Optimized
    /\ RepeatedConstants(Propagated) # {}
    /\ \E i \in DOMAIN Propagated, k \in DOMAIN Deduplicated :
          /\ Propagated[i].op = "Call"
          /\ Deduplicated[k].op = "Call"
          /\ Propagated[i].args # Deduplicated[k].args

(***************************************************************************)
(* dead_store_elimination, observed where optimize_fun has returned: it ran *)
(* on Deduplicated, a body whose registers are each written once.           *)
(***************************************************************************)
Swept == dead_store_elimination(Deduplicated, Lowered.num_used_registers)

\* The positions of Deduplicated whose instruction is in Swept.
KeptPositions ==
    {i \in DOMAIN Deduplicated :
        \/ Deduplicated[i].op = "Ret"
        \/ \E k \in DOMAIN Swept : Swept[k] = Deduplicated[i]}

\* C23: dead_store_elimination keeps every Ret, keeps an instruction that
\* writes a destination if and only if a later kept instruction reads that
\* destination, and leaves the kept instructions in their original order.
DeadStoresExactlyRemoved ==
    Optimized =>
        /\ LET kept == Ascending(KeptPositions)
           IN /\ Len(Swept) = Len(kept)
              /\ \A k \in DOMAIN kept : Swept[k] = Deduplicated[kept[k]]
        /\ \A i \in DOMAIN Deduplicated :
              Deduplicated[i].op # "Ret" =>
                 (i \in KeptPositions
                    <=> \E j \in KeptPositions :
                           j > i /\ Deduplicated[i].dest \in reads(Deduplicated[j]))

\* A body lost a dead store and kept an instruction that is read only through
\* another instruction, not by a Ret itself.
DeadStoreRemovedLiveChainKept ==
    /\ Optimized
    /\ Len(Swept) < Len(Deduplicated)
    /\ \E i \in KeptPositions :
          /\ Deduplicated[i].op # "Ret"
          /\ \A j \in DOMAIN Deduplicated :
                Deduplicated[j].op = "Ret" => Deduplicated[j].reg # Deduplicated[i].dest

(***************************************************************************)
(* The register allocator, observed where generate_machine_code has just    *)
(* returned, with code or with a BackendError: gen.locations is the         *)
(* allocation of function.                                                  *)
(***************************************************************************)
Allocated == Emitted \/ (pc = "returned" /\ result.kind = "Backend")

\* The program counters (from 0) of the instructions that mention a register.
Mentions(body, ir_reg) ==
    {i - 1 : i \in {k \in DOMAIN body :
                       \E o \in DOMAIN operands(body[k]) : operands(body[k])[o] = ir_reg}}

\* Two registers are live together at some program counter.
LiveRangesOverlap(body, r1, r2) ==
    /\ Mentions(body, r1) # {}
    /\ Mentions(body, r2) # {}
    /\ SetMin(Mentions(body, r1)) <= SetMax(Mentions(body, r2))
    /\ SetMin(Mentions(body, r2)) <= SetMax(Mentions(body, r1))

\* The logical slots the allocator gives the registers of function.
LogicalSlots ==
    allocate_ir_regs_to_logical_hw_regs(function, compute_ir_reg_used_at(function))

\* C24: the allocator never gives two IR registers whose live ranges overlap
\* the same location, the location of slot i being Register pool[i] for
\* i < |pool| and Stack (i - |pool|) * 8 otherwise.
OverlappingRegistersApart ==
    Allocated =>
        /\ \A ir_reg \in DOMAIN gen.locations :
              gen.locations[ir_reg]
                 = IF LogicalSlots[ir_reg] < Len(HwRegisterPool)
                   THEN RegisterLocation(HwRegisterPool[LogicalSlots[ir_reg] + 1])
                   ELSE StackLocation((LogicalSlots[ir_reg] - Len(HwRegisterPool)) * 8)
        /\ \A r1, r2 \in DOMAIN gen.locations :
              r1 # r2 /\ LiveRangesOverlap(function.body, r1, r2)
                 => gen.locations[r1] # gen.locations[r2]

\* A slot was reused by a later register while other registers were live,
\* in a function that also has a register on the stack.
SlotReusedAndRegisterSpilled ==
    /\ Allocated
    /\ \E r1, r2 \in DOMAIN gen.locations :
          r1 # r2 /\ gen.locations[r1] = gen.locations[r2]
    /\ \E ir_reg \in DOMAIN gen.locations : gen.locations[ir_reg].kind = "Stack"

\* The allocator's tables once the loop over the body of function has ended.
AllocatorAtEnd ==
    allocate_from(function.body, 0,
        [ir_reg_allocation |->
            [ir_reg \in 0..(function.num_used_registers - 1) |-> NOT_ALLOCATED],
         logical_hw_regs_content |-> <<>>,
         free_logical_hw_registers |-> <<>>,
         ir_reg_used_at |-> compute_ir_reg_used_at(function)])

\* The registers live at a program counter: mentioned at it, or before and after.
LiveAt(body, at) ==
    {ir_reg \in DOMAIN gen.locations :
        /\ Mentions(body, ir_reg) # {}
        /\ SetMin(Mentions(body, ir_reg)) <= at
        /\ at <= SetMax(Mentions(body, ir_reg))}

\* C25: once the instruction with the last occurrence of a register has been
\* processed its slot is FREE and on the free stack, whatever the shape of
\* the instruction: after the last instruction of the body every slot is
\* FREE and on the free stack, and, slots being reused, there are as many
\* slots as registers were ever live together.
SlotsFreedAfterLastUse ==
    Allocated =>
        /\ \A hw_reg \in DOMAIN AllocatorAtEnd.logical_hw_regs_content :
              /\ AllocatorAtEnd.logical_hw_regs_content[hw_reg] = FREE
              /\ \E k \in DOMAIN AllocatorAtEnd.free_logical_hw_registers :
                    AllocatorAtEnd.free_logical_hw_registers[k] = hw_reg - 1
        /\ \A at \in 0..(Len(function.body) - 1) :
              Cardinality(LiveAt(function.body, at))
                 <= Len(AllocatorAtEnd.logical_hw_regs_content)
        /\ function.body # <<>> =>
              \E at \in 0..(Len(function.body) - 1) :
                 Cardinality(LiveAt(function.body, at))
                    = Len(AllocatorAtEnd.logical_hw_regs_content)

(***************************************************************************)
(* The stack cursor of the generator the driver shares among the functions  *)
(* of a program, observed where a function has just been emitted.           *)
(***************************************************************************)
\* C26: for every function the driver compiles, the first and every later
\* one, emission starts with stack_offset = 16 and max_stack_offset = 16: the
\* first register saved by its first Call is stored at [x29, #24], and a
\* function without a Call has FRAME = 16.
EmissionStartsAtSixteen ==
    Emitted =>
        /\ Positions(machine_code, "Str") # {} =>
              machine_code[SetMin(Positions(machine_code, "Str"))]
                 = Str("X0", "X29", 24)
        /\ Positions(machine_code, "Str") = {} =>
              gen.max_stack_offset = 16 /\ FRAME = 16

(***************************************************************************)
(* The offset fields of the prologue and of the epilogues, as the processor *)
(* decodes them from the encoded words.                                     *)
(***************************************************************************)
\* The byte offset a pair instruction applies: its 7-bit field, sign-extended
\* and multiplied by 8.
DecodedPairOffset(word) ==
    (IF word.imm7 >= 64 THEN word.imm7 - 128 ELSE word.imm7) * 8

\* C27: in every emitted function the offset field of the prologue stp
\* decodes to -FRAME and the offset field of every epilogue ldp to +FRAME.
PairOffsetsEncodeFrame ==
    Emitted =>
        /\ DecodedPairOffset(make_machine_code(machine_code[1])[1]) = 0 - FRAME
        /\ \A k \in Positions(machine_code, "Ldp") :
              DecodedPairOffset(make_machine_code(machine_code[k])[1]) = FRAME

(***************************************************************************)
(* The registers of the lowered bodies, observed once frontend::compile has *)
(* returned them.                                                           *)
(***************************************************************************)
\* The positions of the instructions of a body that write a register.
WritersOf(body, ir_reg) ==
    {i \in DOMAIN body : body[i].op # "Ret" /\ body[i].dest = ir_reg}

\* Every register an instruction of the body mentions.
RegistersUsed(body) ==
    UNION {{operands(body[i])[o] : o \in DOMAIN operands(body[i])} : i \in DOMAIN body}

\* C28: in every lowered body each register index below num_used_registers
\* is the destination of exactly one instruction, every read of a register
\* comes strictly after the instruction that writes it, and
\* num_used_registers is the largest index used plus one (0 when no register
\* is used); and the allocator's assertion never fires.
LoweredRegistersWrittenOnce ==
    /\ JustLowered =>
          \A k \in DOMAIN compiled_functions :
             LET body == compiled_functions[k].body
                 n == compiled_functions[k].num_used_registers
             IN /\ \A ir_reg \in 0..(n - 1) : Cardinality(WritersOf(body, ir_reg)) = 1
                /\ \A i \in DOMAIN body :
                      \A ir_reg \in reads(body[i]) :
                         \E w \in WritersOf(body, ir_reg) : w < i
                /\ n = IF RegistersUsed(body) = {} THEN 0
                       ELSE SetMax(RegistersUsed(body)) + 1
    /\ ~(result.kind = "Panic" /\ result.name = "generate_machine_code")

\* A lowered Call whose destination register has a lower index than the
\* registers of its arguments, written after it was numbered.
CallDestinationNumberedBeforeArguments ==
    /\ JustLowered
    /\ \E k \in DOMAIN compiled_functions :
          \E i \in DOMAIN compiled_functions[k].body :
             LET instruction == compiled_functions[k].body[i]
             IN /\ instruction.op = "Call"
                /\ instruction.args # <<>>
                /\ \A a \in DOMAIN instruction.args :
                      instruction.dest < instruction.args[a]

(***************************************************************************)
(* The stores of push against the frame the prologue reserves: x29 is the   *)
(* stack pointer after stp x29, x30, [sp, #-FRAME]!, so the frame is the    *)
(* FRAME bytes from x29 up and the saved pair lies in its first 16.         *)
(***************************************************************************)
\* C29: every str emitted in a function stores its 8 bytes inside the frame
\* and above the saved pair: its offset is at least 16 and its offset plus 8
\* is at most FRAME.
StoresInsideFrame ==
    Emitted =>
        \A k \in Positions(machine_code, "Str") :
            /\ machine_code[k].base = "X29"
            /\ machine_code[k].offset >= 16
            /\ machine_code[k].offset + 8 <= FRAME

(***************************************************************************)
(* The registers saved around the first Call of the function just emitted.  *)
(***************************************************************************)
\* The sources of the str before the first blr, in order.
SavedBeforeFirstCall ==
    LET first == SetMin(Positions(machine_code, "Blr"))
        stores == Ascending({k \in Positions(machine_code, "Str") : k < first})
    IN [k \in DOMAIN stores |-> machine_code[stores[k]].source]

\* The registers the claim lets function save: X0, X19, the pool registers of
\* its own IR registers and its own argument registers but X0.
OwnRegisters ==
    {"X0", "X19"}
    \cup {gen.locations[ir_reg].register :
             ir_reg \in {r \in DOMAIN gen.locations : gen.locations[r].kind = "Register"}}
    \cup {ArgumentRegisters[k + 1] : k \in 1..(function.num_args - 1)}

\* C30: the registers saved around a Call of f are X0, X19, the pool
\* registers allocated to f's IR registers and the argument registers X1 to
\* X(num_args(f) - 1), each saved once, whatever was compiled before f.
SavedRegistersAreOwn ==
    (Emitted /\ Positions(machine_code, "Blr") # {}) =>
        /\ {SavedBeforeFirstCall[k] : k \in DOMAIN SavedBeforeFirstCall} = OwnRegisters
        /\ Len(SavedBeforeFirstCall) = Cardinality(OwnRegisters)

====
